---- MODULE Spec2Model ----
(***************************************************************************)
(* Verification model of the dynamic-consistency comparison scripts        *)
(* (extractData.py, runSimulations.py, 02_collateSimulations.py,           *)
(* 03_analyseSimulations.py).                                              *)
(*                                                                         *)
(* The scripts are module-level Python: every "operation" is a block of    *)
(* the script, and an uncaught exception ends the script.  Floating-point  *)
(* quantities are modelled in integer fixed point (one unit = one tick of  *)
(* time or one unit of value); divisions floor.                            *)
(*                                                                         *)
(* The module holds several specifications, one per part of the program:   *)
(*   SpecWindow   the start/stop index search and the slice it feeds       *)
(*   SpecCollate  one subject's kinematics block of the collation script   *)
(*   SpecBatch    the subject loops of the collation and analysis scripts  *)
(*   SpecRRA3     the three-iteration RRA loop of runSimulations.py        *)
(*   SpecRunTime  one subject's pass of the solution-time extraction       *)
(*   SpecResiduals one subject's residual thresholds and residuals         *)
(*   SpecGroup    group statistics and export tables of the analysis       *)
(*   SpecRun      the subject loop and process blocks of runSimulations.py *)
(*   SpecMoco     solving and recording the cycles of the Moco block       *)
(*   SpecScale    the time ranges of the scale tool in extractData.py      *)
(*   SpecSum      component and summed residual curves of the collation    *)
(* Each specification moves its own variables and leaves the others at     *)
(* their idle values.                                                      *)
(***************************************************************************)
EXTENDS Integers, Sequences, FiniteSets, TLC

\* ------------------------------------------------------------------------
\* Bounds of the model
\* ------------------------------------------------------------------------

\* Largest sample time (in ticks) of a channel in the index-search model.
MaxTime == 4

\* Longest channel (number of samples) in the index-search model.
MaxLen == 4

\* Number of subjects of subList kept in the model (the scripts list ten).
NumSubjects == 2

\* Latest start (in ticks) of the first gait cycle in a subject's gaitTimes.
MaxStart == 1

\* Length of one gait cycle, in ticks of the channels' sample period.
CycleLen == 4

\* Points of the percent-cycle grid (np.linspace(..., 101) in the scripts).
NumPoints == 5

\* Largest amplitude level of a method's kinematic result for a cycle.
MaxLevel == 1

\* Value (in fixed-point units) of one amplitude step.
ValueUnit == 2

\* Longest run of a tool, in units of RunTimeUnit ticks.
MaxRunTime == 2

\* Ticks of one unit of run time (fixed-point resolution of the durations).
RunTimeUnit == 100

\* Most lines of an AddBiomechanics processing log.
MaxLines == 2

\* Most iterations the Moco solver reports for a cycle.
MaxIters == 2

\* ------------------------------------------------------------------------
\* Generic helpers
\* ------------------------------------------------------------------------

Min(S) == CHOOSE x \in S : \A y \in S : x <= y

Max(S) == CHOOSE x \in S : \A y \in S : x >= y

RECURSIVE SumSeq(_)
SumSeq(s) == IF s = << >> THEN 0 ELSE Head(s) + SumSeq(Tail(s))

Abs(x) == IF x < 0 THEN -x ELSE x

\* Strictly increasing sequences over 0..MaxTime of length 1..MaxLen:
\* the time column of a channel.
IsIncreasing(s) == \A i \in 1..(Len(s) - 1) : s[i] < s[i + 1]

TimeArrays ==
    { s \in UNION { [1..n -> 0..MaxTime] : n \in 1..MaxLen } : IsIncreasing(s) }

\* ------------------------------------------------------------------------
\* numpy / Python primitives used by the index search
\* ------------------------------------------------------------------------

\* np.argmax of a boolean array: the 0-based index of the first True, and 0
\* when no element is True (a numpy result, not an error).
ArgMax(mask) ==
    IF \E i \in DOMAIN mask : mask[i]
    THEN Min({ i \in DOMAIN mask : mask[i] }) - 1
    ELSE 0

\* Python slice seq[a:b] for 0-based a, b; a negative index counts from the
\* end, and the result is empty when the normalised start is not below the
\* normalised stop.
PyIndex(n, i) ==
    LET j == IF i < 0 THEN i + n ELSE i
    IN IF j < 0 THEN 0 ELSE IF j > n THEN n ELSE j

PySlice(seq, a, b) ==
    LET lo == PyIndex(Len(seq), a)
        hi == PyIndex(Len(seq), b)
    IN IF lo >= hi THEN << >> ELSE SubSeq(seq, lo + 1, hi)

\* np.linspace(first, last, NumPoints), in units of 1/(NumPoints - 1) tick:
\* the first point is first, the last point is last.
Linspace_noEndpoint(first, last) ==
    [ k \in 1..NumPoints |->
        first * (NumPoints - 1)
            + ((k - 1) * (last - first) * (NumPoints - 1)) \div NumPoints ]

Linspace(first, last) ==
    [ k \in 1..NumPoints |-> first * (NumPoints - 1) + (k - 1) * (last - first) ]

\* interp1d(x, y)(q), which for a 1-D linear interpolant is np.interp, for a
\* query q given in units of 1/(NumPoints - 1) tick inside [x[0], x[-1]]:
\* with j the last sample at or before q, the value is y[j] when j is the
\* last sample or q is at x[j], and otherwise lies on the segment from
\* sample j to sample j + 1.
Interp_nearest(x, y, q) ==
    LET D == NumPoints - 1
        j == Max({ i \in DOMAIN x : x[i] * D <= q })
    IN IF j = Len(x) THEN y[j]
       ELSE IF x[j] * D = q THEN y[j]
       ELSE IF 2 * (q - x[j] * D) < (x[j + 1] - x[j]) * D THEN y[j] ELSE y[j + 1]

Interp(x, y, q) ==
    LET D == NumPoints - 1
        j == Max({ i \in DOMAIN x : x[i] * D <= q })
    IN IF j = Len(x) THEN y[j]
       ELSE IF x[j] * D = q THEN y[j]
       ELSE y[j] + ((y[j + 1] - y[j]) * (q - x[j] * D))
                       \div ((x[j + 1] - x[j]) * D)

\* The curve stored for a method and cycle: the channel interpolated at
\* NumPoints evenly spaced times from its first to its last sample.
Normalise(x, y) ==
    LET q == Linspace(x[1], x[Len(x)])
    IN [ k \in 1..NumPoints |-> Interp(x, y, q[k]) ]

\* The value columns of a channel with the time column time.
ValueArrays(time) ==
    [ DOMAIN time -> { ValueUnit * level : level \in 0..MaxLevel } ]

\* ------------------------------------------------------------------------
\* State
\* ------------------------------------------------------------------------

VARIABLES
    \* -- index search (SpecWindow)
    wPc,            \* "idle" | "ready" | "resolved" | "sliced" | "stored" | "raised"
    wTime,          \* time column of the channel being windowed
    wValue,         \* value column of the channel being windowed
    wInitialTime,   \* initialTime = rraTime[0]
    wFinalTime,     \* finalTime = rraTime[-1]
    wInitialInd,    \* initialInd / addBiomechStart
    wFinalInd,      \* finalInd / addBiomechStop
    wTimeCycle,     \* ikTimeCycle / addBiomechTimeCycle
    wValueCycle,    \* ikKinematicVar / addBiomechKinematicVar
    wCurve,         \* ikKinematics[runLabel][cycle][var]
    wError          \* "none" or the exception that ended the block

windowVars ==
    << wPc, wTime, wValue, wInitialTime, wFinalTime, wInitialInd, wFinalInd,
       wTimeCycle, wValueCycle, wCurve, wError >>

VARIABLES
    \* -- iterative RRA of runSimulations.py (SpecRRA3)
    rPc,              \* position in the subject loop / RRA3 block
    rSubject,         \* index of the current subject in subList
    rraIter,          \* rraIter of "for rraIter in range(1,4)"
    rCycle,           \* index of the current cycle in cycleList
    rCwd,             \* process working directory (path components)
    rGaitTimings,     \* gaitTimings[runLabel]: cycle -> initialTime, finalTime
    rTool,            \* settings held by the rraTool object
    rFiles,           \* files on disk: path -> content
    rRuns,            \* what each executed RRA run read (history)
    rra3RunTimeData,  \* rra3RunTimeData[runLabel][cycle]['rra3RunTime']
    rSaved,           \* subjects whose <subject>_rra3RunTimeData.pkl is written
    rError            \* "none" or the exception that ended the script

rra3Vars ==
    << rPc, rSubject, rraIter, rCycle, rCwd, rGaitTimings, rTool, rFiles,
       rRuns, rra3RunTimeData, rSaved, rError >>

VARIABLES
    \* -- one subject's kinematics block of 02_collateSimulations.py
    kPc,            \* position in the block
    kVar,           \* the kinematic variable followed through the block
    kCycle,         \* index of the cycle of the running cycle loop
    kIkData,        \* ikData: time and value column of the whole trial
    kAbLevel,       \* amplitude of the subject's AddBiomechanics file
    kRawLevel,      \* amplitude of the RRA, RRA3 and Moco file of each cycle
    kKinematics,    \* <tool>Kinematics[runLabel][cycle][var], by tool
    kRMSE,          \* <outer>KinematicsRMSE[inner][runLabel][cycle|'mean'][var]
    kMissing,       \* result files found absent (history)
    kSaved,         \* TRUE once the RMSE dictionaries are pickled
    kError          \* "none" or the exception that ended the script

collateVars ==
    << kPc, kVar, kCycle, kIkData, kAbLevel, kRawLevel, kKinematics, kRMSE,
       kMissing, kSaved, kError >>

VARIABLES
    \* -- subject loops of 02_collateSimulations.py and 03_analyseSimulations.py
    bData,            \* per subject: the tools whose results are on disk
    bCollatePc,       \* collation script: "subject" | "done" | "aborted"
    bAnalysePc,       \* analysis script: "notStarted" | loop | "done" | "aborted"
    bSubject,         \* index in subList of the running subject loop
    bOutputs,         \* per subject: the pickled RMSE means, or NoOutput
    solutionTimes,    \* solutionTimes[tool][subList.index(subject)]
    kinematicsRMSD,   \* kinematicsRMSD[outer][inner][var][subList.index(subject)]
    bAccumulated,     \* (loop, subject index) passes completed (history)
    bStats,           \* group mean and standard deviation per cell
    solutionTimeStats, \* group mean and standard deviation per solver
    bError            \* exception that ended each script, "none" if none

batchVars ==
    << bData, bCollatePc, bAnalysePc, bSubject, bOutputs, solutionTimes,
       kinematicsRMSD, bAccumulated, bStats, solutionTimeStats, bError >>

VARIABLES
    \* -- one subject's pass of "Extract solution times" (SpecRunTime)
    tPc,                         \* position in the loop body
    tGaitTimings,                \* gaitTimings[runLabel]
    tRraRunTime,                 \* rraRunTime[runLabel][cycle]['rraRunTime']
    tRra3RunTime,                \* rra3RunTime[runLabel][cycle]['rra3RunTime']
    tMocoRunTime,                \* mocoRunTime[runLabel][cycle]['mocoRunTime']
    tLog,                        \* lines of processingLogs.txt
    tTrcTime,                    \* time column of the AddBiomechanics .trc file
    addBiomechanicsTime,         \* seconds summed from the log
    addBiomechanicsTimeScaled,   \* the same scaled to one cycle
    tSolutionTimes               \* the subject's slot of solutionTimes, by tool

runTimeVars ==
    << tPc, tGaitTimings, tRraRunTime, tRra3RunTime, tMocoRunTime, tLog,
       tTrcTime, addBiomechanicsTime, addBiomechanicsTimeScaled, tSolutionTimes >>

VARIABLES
    \* -- one subject's residual thresholds and residuals (SpecResiduals)
    resPc,                \* position in the two scripts
    expGRF,               \* vertical ground reaction force, right and left
    staticMotion,         \* first row of the static output, by coordinate
    resResiduals,         \* <tool>Residuals[runLabel][cycle][var], by tool
    collateRec,           \* forceResidualRec, momentResidualRec of the collation
    residualThresholds,   \* the subject's slot of residualThresholds
    avgResiduals,         \* the subject's slot of avgResiduals[tool][var]
    peakResiduals         \* the subject's slot of peakResiduals[tool][var]

resVars ==
    << resPc, expGRF, staticMotion, resResiduals, collateRec,
       residualThresholds, avgResiduals, peakResiduals >>


VARIABLES
    \* -- the group level of the analysis script (SpecGroup)
    gPc,                  \* position in the script, after the subject loops
    groupSolutionTimes,   \* solutionTimes[tool], one slot per subject
    groupAvgResiduals,    \* avgResiduals[tool][var], one slot per subject
    groupPeakResiduals,   \* peakResiduals[tool][var], one slot per subject
    gStats,               \* the means and standard deviations displayed
    gTables               \* the dataframes written to file, as lists of rows

groupVars ==
    << gPc, groupSolutionTimes, groupAvgResiduals, groupPeakResiduals, gStats,
       gTables >>


VARIABLES
    \* -- the subject loop of runSimulations.py (SpecRun)
    uPc,          \* position in the body of the subject loop
    runFlags,     \* runRRA, runRRA3, runMoco, runAddBiomech
    uSubject,     \* index in subList of the subject of the iteration
    uCwd,         \* working directory of the process
    uPaths,       \* the files and directories that exist
    uOpened,      \* the gait timings file the set-up of the subject opened
    uError        \* where and how the script ended, "none" if it has not

runVars ==
    << uPc, runFlags, uSubject, uCwd, uPaths, uOpened, uError >>


VARIABLES
    \* -- the cycles of the Moco block of one subject (SpecMoco)
    mPc,              \* position in the body of the cycle loop
    mCycle,           \* index in cycleList of the cycle of the pass
    mSolution,        \* the solution object the script holds
    mSolutions,       \* what study.solve() returned, cycle by cycle
    mocoRunTimeData,  \* mocoRunTimeData[runLabel][cycle]
    mWritten,         \* the solution files written, by cycle
    mError            \* exception that ended the script, "none" if none

mocoVars ==
    << mPc, mCycle, mSolution, mSolutions, mocoRunTimeData, mWritten, mError >>


VARIABLES
    \* -- the scaling of one subject in extractData.py (SpecScale)
    sPc,            \* position in the body of the subject loop
    sTimeRange,     \* time range of the model scaler and of the marker placer
    sRunWith        \* the time ranges the scale tool was run with

scaleVars ==
    << sPc, sTimeRange, sRunWith >>


VARIABLES
    \* -- the residual curves of one subject in the collation (SpecSum)
    qPc,          \* position in the cycle loop of "Read in and compare residuals"
    qCycle,       \* index in cycleList of the cycle of the pass
    qVar,         \* index in residualVars of the variable of the pass
    qLevels,      \* the level of the result files loaded, cycle by cycle
    qData,        \* the columns of the result files of the cycle, by tool
    qResiduals    \* <tool>Residuals[runLabel][cycle][var], by tool

summedVars ==
    << qPc, qCycle, qVar, qLevels, qData, qResiduals >>

vars ==
    << windowVars, rra3Vars, collateVars, batchVars, runTimeVars, resVars,
       groupVars,
       runVars,
       mocoVars,
       scaleVars,
       summedVars >>

\* What the actions of one specification leave alone.
notWindowVars ==
    << rra3Vars, collateVars, batchVars, runTimeVars, resVars,
       groupVars,
       runVars,
       mocoVars,
       scaleVars,
       summedVars >>

notRra3Vars ==
    << windowVars, collateVars, batchVars, runTimeVars, resVars,
       groupVars,
       runVars,
       mocoVars,
       scaleVars,
       summedVars >>

notCollateVars ==
    << windowVars, rra3Vars, batchVars, runTimeVars, resVars,
       groupVars,
       runVars,
       mocoVars,
       scaleVars,
       summedVars >>

notBatchVars ==
    << windowVars, rra3Vars, collateVars, runTimeVars, resVars,
       groupVars,
       runVars,
       mocoVars,
       scaleVars,
       summedVars >>

notRunTimeVars ==
    << windowVars, rra3Vars, collateVars, batchVars, resVars,
       groupVars,
       runVars,
       mocoVars,
       scaleVars,
       summedVars >>

notResVars ==
    << windowVars, rra3Vars, collateVars, batchVars, runTimeVars,
       groupVars,
       runVars,
       mocoVars,
       scaleVars,
       summedVars >>

notGroupVars ==
    << windowVars,
       rra3Vars,
       collateVars,
       batchVars,
       runTimeVars,
       resVars,
       runVars,
       mocoVars,
       scaleVars,
       summedVars >>

notRunVars ==
    << windowVars,
       rra3Vars,
       collateVars,
       batchVars,
       runTimeVars,
       resVars,
       groupVars,
       mocoVars,
       scaleVars,
       summedVars >>

notMocoVars ==
    << windowVars,
       rra3Vars,
       collateVars,
       batchVars,
       runTimeVars,
       resVars,
       groupVars,
       runVars,
       scaleVars,
       summedVars >>

notScaleVars ==
    << windowVars,
       rra3Vars,
       collateVars,
       batchVars,
       runTimeVars,
       resVars,
       groupVars,
       runVars,
       mocoVars,
       summedVars >>

notSummedVars ==
    << windowVars,
       rra3Vars,
       collateVars,
       batchVars,
       runTimeVars,
       resVars,
       groupVars,
       runVars,
       mocoVars,
       scaleVars >>

\* ------------------------------------------------------------------------
\* SpecWindow: start and stop indices of a cycle in a channel
\* ------------------------------------------------------------------------

\* initialInd = np.argmax(ikTime > initialTime)
StartIndex_atOrAfter(time, t) ==
    ArgMax([ i \in DOMAIN time |-> time[i] >= t ])

StartIndex(time, t) ==
    ArgMax([ i \in DOMAIN time |-> time[i] > t ])

\* finalInd = np.argmax(ikTime > finalTime) - 1
StopIndex(time, t) ==
    ArgMax([ i \in DOMAIN time |-> time[i] > t ]) - 1

\* np.zeros(101): the value a curve has before it is stored.
ZeroCurve == [ k \in 1..NumPoints |-> 0 ]

WindowIdle ==
    /\ wPc = "idle"
    /\ wTime = << >>
    /\ wValue = << >>
    /\ wInitialTime = 0
    /\ wFinalTime = 0
    /\ wInitialInd = 0
    /\ wFinalInd = 0
    /\ wTimeCycle = << >>
    /\ wValueCycle = << >>
    /\ wCurve = ZeroCurve
    /\ wError = "none"

\* A channel and the first and last time of the RRA result of a cycle; the
\* cycle may start or end outside the channel.
WindowInit ==
    /\ wPc = "ready"
    /\ wTime \in TimeArrays
    /\ wValue \in ValueArrays(wTime)
    /\ wInitialTime \in 0..(MaxTime + 1)
    /\ wFinalTime \in 0..(MaxTime + 1)
    /\ wInitialTime < wFinalTime
    /\ wInitialInd = 0
    /\ wFinalInd = 0
    /\ wTimeCycle = << >>
    /\ wValueCycle = << >>
    /\ wCurve = ZeroCurve
    /\ wError = "none"

\* Get IK indices / Get AddBiomechanics indices.
ResolveIndices ==
    /\ wPc = "ready"
    /\ wInitialInd' = StartIndex(wTime, wInitialTime)
    /\ wFinalInd' = StopIndex(wTime, wFinalTime)
    /\ wPc' = "resolved"
    /\ UNCHANGED << wTime, wValue, wInitialTime, wFinalTime, wTimeCycle,
                    wValueCycle, wCurve, wError >>
    /\ UNCHANGED notWindowVars

\* ikKinematicVar = ...to_numpy()[initialInd:finalInd] and
\* ikTimeCycle = ikTime[initialInd:finalInd], taken whatever the indices are.
ExtractWindow ==
    /\ wPc = "resolved"
    /\ wTimeCycle' = PySlice(wTime, wInitialInd, wFinalInd)
    /\ wValueCycle' = PySlice(wValue, wInitialInd, wFinalInd)
    /\ wPc' = "sliced"
    /\ UNCHANGED << wTime, wValue, wInitialTime, wFinalTime, wInitialInd,
                    wFinalInd, wCurve, wError >>
    /\ UNCHANGED notWindowVars

WindowRaise(err) ==
    /\ wError' = err
    /\ wPc' = "raised"
    /\ UNCHANGED << wTime, wValue, wInitialTime, wFinalTime, wInitialInd,
                    wFinalInd, wTimeCycle, wValueCycle, wCurve >>

\* interp1d(ikTimeCycle, ...) and ikTimeCycle[0]: the first statement that
\* can fail, and only on an empty slice.
InterpolateEmptyWindow ==
    /\ wPc = "sliced"
    /\ wTimeCycle = << >>
    /\ WindowRaise("ValueError")
    /\ UNCHANGED notWindowVars

\* interp1d of a window of one sample: the scipy releases that ask a linear
\* interpolant for at least one entry build it, and the curve is stored;
\* the releases that ask for at least two raise ValueError.
InterpolateSingleSample ==
    /\ wPc = "sliced"
    /\ Len(wTimeCycle) = 1
    /\ \/ /\ wCurve' = Normalise(wTimeCycle, wValueCycle)
          /\ wPc' = "stored"
          /\ UNCHANGED << wTime, wValue, wInitialTime, wFinalTime, wInitialInd,
                          wFinalInd, wTimeCycle, wValueCycle, wError >>
       \/ WindowRaise("ValueError")
    /\ UNCHANGED notWindowVars

\* "Interpolate to 101 points" and "Interpolate data and store in relevant
\* dictionary" for a window of two samples or more.
InterpolateWindow ==
    /\ wPc = "sliced"
    /\ Len(wTimeCycle) >= 2
    /\ wCurve' = Normalise(wTimeCycle, wValueCycle)
    /\ wPc' = "stored"
    /\ UNCHANGED << wTime, wValue, wInitialTime, wFinalTime, wInitialInd,
                    wFinalInd, wTimeCycle, wValueCycle, wError >>
    /\ UNCHANGED notWindowVars

WindowNext ==
    \/ ResolveIndices
    \/ ExtractWindow
    \/ InterpolateEmptyWindow
    \/ InterpolateSingleSample
    \/ InterpolateWindow

\* -- properties of the index search --------------------------------------

SomeSampleAfter(t) == \E i \in DOMAIN wTime : wTime[i] > t

FirstAfter(t) == Min({ i \in DOMAIN wTime : wTime[i] > t }) - 1

WindowOutOfRange ==
    \/ ~ SomeSampleAfter(wInitialTime)
    \/ ~ SomeSampleAfter(wFinalTime)

\* C2: a cycle window with no sample after initialTime or no sample after
\* finalTime ends the index search with OutOfRangeError: no index range is
\* produced and nothing is windowed.
C2_OutOfRangeRaises ==
    (wPc # "ready" /\ WindowOutOfRange) =>
        /\ wError = "OutOfRangeError"
        /\ wPc = "raised"
        /\ wTimeCycle = << >>

\* C3: when a sample after initialTime (finalTime) exists, the start index is
\* the smallest index with time > initialTime and the stop index is the
\* smallest index with time > finalTime, minus one; a sample at initialTime
\* lies before the start index and a sample at finalTime is at the stop index.
C3_IndicesAreFirstAfter ==
    (wPc \in {"resolved", "sliced", "stored", "raised"}) =>
        /\ SomeSampleAfter(wInitialTime) =>
              /\ wInitialInd = FirstAfter(wInitialTime)
              /\ \A i \in DOMAIN wTime :
                    wTime[i] = wInitialTime => (i - 1) < wInitialInd
        /\ SomeSampleAfter(wFinalTime) =>
              /\ wFinalInd = FirstAfter(wFinalTime) - 1
              /\ \A i \in DOMAIN wTime :
                    wTime[i] = wFinalTime => (i - 1) = wFinalInd

\* A resolved window with a sample exactly at initialTime, a sample exactly
\* at finalTime and a later sample.
C3_Witness ==
    /\ wPc = "resolved"
    /\ \E i \in DOMAIN wTime : wTime[i] = wInitialTime
    /\ \E i \in DOMAIN wTime : wTime[i] = wFinalTime
    /\ SomeSampleAfter(wFinalTime)

\* The indices of the samples inside the cycle: initialTime < time <= finalTime.
SamplesInCycle ==
    { i \in DOMAIN wTime : wInitialTime < wTime[i] /\ wTime[i] <= wFinalTime }

\* C23: the samples handed to the normalisation for a cycle are those at the
\* start index through the stop index inclusive: every sample with
\* initialTime < time <= finalTime, in order, and no other sample.
C23_WindowInclusive ==
    (wPc \in { "sliced", "stored", "raised" } /\ ~ WindowOutOfRange) =>
        /\ Len(wTimeCycle) = Cardinality(SamplesInCycle)
        /\ \A i \in SamplesInCycle :
              \E k \in DOMAIN wTimeCycle :
                  /\ wTimeCycle[k] = wTime[i]
                  /\ wValueCycle[k] = wValue[i]

\* -- properties of the normalisation ---------------------------------------

WindowFirst == wTimeCycle[1]

WindowLast == wTimeCycle[Len(wTimeCycle)]

\* C11: the first and the last element of a stored curve are the first and
\* the last value of the windowed channel, and the curve of a window of two
\* samples lies on the straight line between the two values.
C11_EndpointsExact ==
    wPc = "stored" =>
        /\ wCurve[1] = wValueCycle[1]
        /\ wCurve[NumPoints] = wValueCycle[Len(wValueCycle)]
        /\ Len(wTimeCycle) = 2 =>
              \A k \in 1..NumPoints :
                  LET run == (wValueCycle[2] - wValueCycle[1]) * (k - 1)
                      rise == (NumPoints - 1) * (wCurve[k] - wValueCycle[1])
                  IN rise <= run /\ run < rise + (NumPoints - 1)

\* A stored curve of a window of two samples with different values.
C11_Witness ==
    /\ wPc = "stored"
    /\ Len(wTimeCycle) = 2
    /\ wValueCycle[1] # wValueCycle[2]

\* C12: a stored curve has exactly NumPoints values, taken at evenly spaced
\* times from the first to the last time of its window: wherever a sample of
\* the window lies at the k-th of these times, the k-th value is its value.
C12_CurveOnEvenGrid ==
    /\ wPc # "idle" => Len(wCurve) = NumPoints
    /\ wPc = "stored" =>
          \A i \in DOMAIN wTimeCycle : \A k \in 1..NumPoints :
              (wTimeCycle[i] - WindowFirst) * (NumPoints - 1)
                    = (k - 1) * (WindowLast - WindowFirst)
                  => wCurve[k] = wValueCycle[i]

\* A stored curve of a window with a sample strictly inside it that lies on
\* the grid and differs in value from the first and last sample.
C12_Witness ==
    /\ wPc = "stored"
    /\ \E i \in 2..(Len(wTimeCycle) - 1) : \E k \in 2..(NumPoints - 1) :
          /\ (wTimeCycle[i] - WindowFirst) * (NumPoints - 1)
                = (k - 1) * (WindowLast - WindowFirst)
          /\ wValueCycle[i] # wValueCycle[1]
          /\ wValueCycle[i] # wValueCycle[Len(wValueCycle)]

\* C15: a window of fewer than two samples ends the normalisation with an
\* error, and no curve is stored for it.
C15_InsufficientSamplesRaises ==
    (wPc \in { "stored", "raised" } /\ Len(wTimeCycle) < 2) =>
        /\ wPc = "raised"
        /\ wError # "none"
        /\ wCurve = ZeroCurve

\* ------------------------------------------------------------------------
\* SpecRRA3: the iterative RRA block of runSimulations.py
\* ------------------------------------------------------------------------

subList == [ i \in 1..NumSubjects |-> "subject0" \o ToString(i) ]

cycleList == << "cycle1", "cycle2", "cycle3" >>

runLabel == "run5"

runName == "Run_5"

\* homeDir = os.getcwd(): the script is started in code/HamnerDelpDataset.
homeDir == << "code", "HamnerDelpDataset" >>

\* os.path.join(cwd, rel) followed by resolution of the '..' components.
RECURSIVE JoinPath(_, _)
JoinPath(cwd, rel) ==
    IF rel = << >> THEN cwd
    ELSE IF Head(rel) = ".."
         THEN JoinPath(IF cwd = << >> THEN cwd ELSE SubSeq(cwd, 1, Len(cwd) - 1),
                       Tail(rel))
         ELSE JoinPath(Append(cwd, Head(rel)), Tail(rel))

IterDir(k) == "rra" \o ToString(k)

\* <subject>_<runLabel>_<cycle>_rraAdjusted_iter<k>.osim
AdjustedModelName(subject, cycle, k) ==
    subject \o "_" \o runLabel \o "_" \o cycle \o "_rraAdjusted_iter"
        \o ToString(k) \o ".osim"

\* <subject>_<runLabel>_<cycle>_iter<k>_Kinematics_q.sto
KinematicsName(subject, cycle, k) ==
    subject \o "_" \o runLabel \o "_" \o cycle \o "_iter" \o ToString(k)
        \o "_Kinematics_q.sto"

ScaledModelPath(subject) ==
    << "data", "HamnerDelp2013", subject, "model",
       subject \o "_adjusted_scaled.osim" >>

IkPath(subject) ==
    << "data", "HamnerDelp2013", subject, "ik", runName \o ".mot" >>

\* Content of a file: what produced it and the time range it covers.
FileContent(kind, subject, k, cycle, first, last) ==
    [ kind |-> kind, subject |-> subject, iter |-> k, cycle |-> cycle,
      first |-> first, last |-> last ]

\* The inputs extractData.py leaves for every subject: the scaled model and
\* the IK result of the whole trial.
InputFiles ==
    LET paths == { ScaledModelPath(subList[i]) : i \in 1..NumSubjects }
                     \cup { IkPath(subList[i]) : i \in 1..NumSubjects }
        SubjectOf(p) == p[3]
    IN [ p \in paths |->
           IF p[4] = "model"
           THEN FileContent("scaled_model", SubjectOf(p), 0, "trial", 0, 0)
           ELSE FileContent("ik", SubjectOf(p), 0, "trial", 0,
                            MaxStart + Len(cycleList) * CycleLen + 1) ]

NoTool ==
    [ modelFile |-> << >>, kinematicsFile |-> << >>, initialTime |-> 0,
      finalTime |-> 0, cutoff |-> 0, name |-> "", outputModel |-> << >> ]

EmptyRunTimeData == [ c \in DOMAIN cycleList |-> << >> ]

NoGaitTimings == [ c \in DOMAIN cycleList |-> [ initialTime |-> 0, finalTime |-> 0 ] ]

Rra3Idle ==
    /\ rPc = "idle"
    /\ rSubject = 0
    /\ rraIter = 0
    /\ rCycle = 0
    /\ rCwd = homeDir
    /\ rGaitTimings = NoGaitTimings
    /\ rTool = NoTool
    /\ rFiles = << >>
    /\ rRuns = {}
    /\ rra3RunTimeData = EmptyRunTimeData
    /\ rSaved = {}
    /\ rError = "none"

\* The script is started in homeDir with runRRA3 = True, on a dataset that
\* holds the inputs of every subject and no RRA3 output yet.
Rra3Init ==
    /\ rPc = "subject"
    /\ rSubject = 1
    /\ rraIter = 0
    /\ rCycle = 0
    /\ rCwd = homeDir
    /\ rGaitTimings = NoGaitTimings
    /\ rTool = NoTool
    /\ rFiles = InputFiles
    /\ rRuns = {}
    /\ rra3RunTimeData = EmptyRunTimeData
    /\ rSaved = {}
    /\ rError = "none"

Rra3Abort(err) ==
    /\ rPc' = "aborted"
    /\ rError' = err

\* The run-time dictionary created once, before the subject loop.
StartSubject_keepRunTimes ==
    /\ rPc = "subject"
    /\ rSubject <= NumSubjects
    /\ \/ \E t0 \in 0..MaxStart :
             /\ rGaitTimings' =
                   [ c \in DOMAIN cycleList |->
                       [ initialTime |-> t0 + (c - 1) * CycleLen,
                         finalTime |-> t0 + c * CycleLen ] ]
             /\ rPc' = "rra3"
             /\ UNCHANGED rError
       \/ /\ Rra3Abort("FileNotFoundError")
          /\ UNCHANGED rGaitTimings
    /\ UNCHANGED << rSubject, rraIter, rCycle, rCwd, rTool, rFiles, rRuns, rSaved,
                    rra3RunTimeData >>
    /\ UNCHANGED notRra3Vars

\* Top of the subject loop: the run-time dictionary is created anew and the
\* subject's gait timings are loaded; the load fails when the file is not
\* where the script looks for it.
StartSubject ==
    /\ rPc = "subject"
    /\ rSubject <= NumSubjects
    /\ rra3RunTimeData' = EmptyRunTimeData
    /\ \/ \E t0 \in 0..MaxStart :
             /\ rGaitTimings' =
                   [ c \in DOMAIN cycleList |->
                       [ initialTime |-> t0 + (c - 1) * CycleLen,
                         finalTime |-> t0 + c * CycleLen ] ]
             /\ rPc' = "rra3"
             /\ UNCHANGED rError
       \/ /\ Rra3Abort("FileNotFoundError")
          /\ UNCHANGED rGaitTimings
    /\ UNCHANGED << rSubject, rraIter, rCycle, rCwd, rTool, rFiles, rRuns, rSaved >>
    /\ UNCHANGED notRra3Vars

\* if runRRA3: change to the subject's rra3 directory of the trial.
EnterRRA3 ==
    /\ rPc = "rra3"
    /\ rCwd' = JoinPath(rCwd, << "..", "..", "data", "HamnerDelp2013",
                                subList[rSubject], "rra3", runLabel >>)
    /\ rraIter' = 1
    /\ rPc' = "iteration"
    /\ UNCHANGED << rSubject, rCycle, rGaitTimings, rTool, rFiles, rRuns,
                    rra3RunTimeData, rSaved, rError >>
    /\ UNCHANGED notRra3Vars

\* for rraIter in range(1,4): make and enter the iteration directory and
\* create a fresh tool.
StartIteration ==
    /\ rPc = "iteration"
    /\ rraIter <= 3
    /\ rCwd' = JoinPath(rCwd, << IterDir(rraIter) >>)
    /\ rTool' = NoTool
    /\ rCycle' = 1
    /\ rPc' = "configure"
    /\ UNCHANGED << rSubject, rraIter, rGaitTimings, rFiles, rRuns,
                    rra3RunTimeData, rSaved, rError >>
    /\ UNCHANGED notRra3Vars

\* Model file of an iteration after the first: the adjusted model of the
\* previous iteration of the same cycle.
PrevModelFile_fixedCycle(subject, cycle, k) ==
    << "..", IterDir(k - 1), "cycle1", AdjustedModelName(subject, "cycle1", k - 1) >>

PrevModelFile(subject, cycle, k) ==
    << "..", IterDir(k - 1), cycle, AdjustedModelName(subject, cycle, k - 1) >>

\* Desired kinematics of an iteration after the first: the kinematics the
\* previous iteration of the same cycle put out.
PrevKinematicsFile(subject, cycle, k) ==
    << "..", IterDir(k - 1), cycle, KinematicsName(subject, cycle, k - 1) >>

\* "Add in cycle and iteration specific details" up to printToXML.
ConfigureTool ==
    /\ rPc = "configure"
    /\ LET subject == subList[rSubject]
           cycle == cycleList[rCycle]
           common == [ rTool EXCEPT
                         !.name = subject \o "_" \o runLabel \o "_" \o cycle
                                     \o "_iter" \o ToString(rraIter),
                         !.outputModel =
                             JoinPath(rCwd, << cycle,
                                 AdjustedModelName(subject, cycle, rraIter) >>) ]
       IN IF rraIter = 1
          THEN /\ rTool' = [ common EXCEPT
                    !.modelFile = JoinPath(rCwd, << "..", "..", "..", "model",
                                      subject \o "_adjusted_scaled.osim" >>),
                    !.kinematicsFile = JoinPath(rCwd, << "..", "..", "..", "ik",
                                      runName \o ".mot" >>),
                    !.cutoff = 15,
                    !.initialTime = rGaitTimings[rCycle].initialTime,
                    !.finalTime = rGaitTimings[rCycle].finalTime ]
               /\ rPc' = "run"
               /\ UNCHANGED rError
          ELSE LET kin == JoinPath(rCwd, PrevKinematicsFile(subject, cycle, rraIter))
               IN IF kin \in DOMAIN rFiles
                  THEN /\ rTool' = [ common EXCEPT
                            !.modelFile =
                                JoinPath(rCwd, PrevModelFile(subject, cycle, rraIter)),
                            !.kinematicsFile = kin,
                            !.cutoff = -1,
                            !.initialTime = rFiles[kin].first,
                            !.finalTime = rFiles[kin].last ]
                       /\ rPc' = "run"
                       /\ UNCHANGED rError
                  ELSE /\ Rra3Abort("RuntimeError")
                       /\ UNCHANGED rTool
    /\ UNCHANGED << rSubject, rraIter, rCycle, rCwd, rGaitTimings, rFiles, rRuns,
                    rra3RunTimeData, rSaved >>
    /\ UNCHANGED notRra3Vars

WithFile(files, path, content) ==
    [ p \in DOMAIN files \cup { path } |->
        IF p = path THEN content ELSE files[p] ]

\* rraToolRun.run() between the two timer readings, and the append of the
\* run time.  The tool reads the model and the desired kinematics it was
\* given; it either writes the adjusted model and the kinematics of this
\* iteration or ends without output.
RunTool ==
    /\ rPc = "run"
    /\ LET subject == subList[rSubject]
           cycle == cycleList[rCycle]
       IN IF rTool.modelFile \in DOMAIN rFiles /\ rTool.kinematicsFile \in DOMAIN rFiles
          THEN /\ rRuns' = rRuns \cup
                     { [ subject |-> subject, iter |-> rraIter, cycle |-> cycle,
                         model |-> rFiles[rTool.modelFile],
                         kinematics |-> rFiles[rTool.kinematicsFile] ] }
               /\ rra3RunTimeData' =
                     [ rra3RunTimeData EXCEPT
                         ![rCycle] = Append(@, [ subject |-> subject,
                                                 iter |-> rraIter ]) ]
               /\ \/ rFiles' =
                        WithFile(
                          WithFile(rFiles, rTool.outputModel,
                             FileContent("adjusted_model", subject, rraIter, cycle,
                                         0, 0)),
                          JoinPath(rCwd, << cycle,
                                      KinematicsName(subject, cycle, rraIter) >>),
                          FileContent("kinematics", subject, rraIter, cycle,
                                      rTool.initialTime, rTool.finalTime))
                  \/ UNCHANGED rFiles
               /\ rPc' = "adjust"
               /\ UNCHANGED rError
          ELSE /\ Rra3Abort("RuntimeError")
               /\ UNCHANGED << rRuns, rra3RunTimeData, rFiles >>
    /\ UNCHANGED << rSubject, rraIter, rCycle, rCwd, rGaitTimings, rTool, rSaved >>
    /\ UNCHANGED notRra3Vars

\* Mass adjustment of the newly created model, inverse dynamics on the new
\* kinematics, and the step of the cycle loop.  Loading the adjusted model
\* fails when the tool wrote none.
AdjustAndInverseDynamics ==
    /\ rPc = "adjust"
    /\ LET subject == subList[rSubject]
           cycle == cycleList[rCycle]
           model == JoinPath(rCwd, << cycle,
                                AdjustedModelName(subject, cycle, rraIter) >>)
           kin == JoinPath(rCwd, << cycle,
                              KinematicsName(subject, cycle, rraIter) >>)
       IN IF model \in DOMAIN rFiles /\ kin \in DOMAIN rFiles
          THEN /\ IF rCycle < Len(cycleList)
                  THEN /\ rCycle' = rCycle + 1
                       /\ rPc' = "configure"
                  ELSE /\ rCycle' = rCycle
                       /\ rPc' = "endIteration"
               /\ UNCHANGED rError
          ELSE /\ Rra3Abort("RuntimeError")
               /\ UNCHANGED rCycle
    /\ UNCHANGED << rSubject, rraIter, rCwd, rGaitTimings, rTool, rFiles, rRuns,
                    rra3RunTimeData, rSaved >>
    /\ UNCHANGED notRra3Vars

\* The step of the iteration loop without the return to the trial level.
EndIteration_noReturn ==
    /\ rPc = "endIteration"
    /\ IF rraIter < 3
       THEN /\ rraIter' = rraIter + 1
            /\ rPc' = "iteration"
       ELSE /\ rraIter' = rraIter
            /\ rPc' = "save"
    /\ UNCHANGED << rSubject, rCycle, rCwd, rGaitTimings, rTool, rFiles, rRuns,
                    rra3RunTimeData, rSaved, rError >>
    /\ UNCHANGED notRra3Vars

\* "Return to main trial level directory" and the step of the iteration loop.
EndIteration ==
    /\ rPc = "endIteration"
    /\ rCwd' = JoinPath(rCwd, << ".." >>)
    /\ IF rraIter < 3
       THEN /\ rraIter' = rraIter + 1
            /\ rPc' = "iteration"
       ELSE /\ rraIter' = rraIter
            /\ rPc' = "save"
    /\ UNCHANGED << rSubject, rCycle, rGaitTimings, rTool, rFiles, rRuns,
                    rra3RunTimeData, rSaved, rError >>
    /\ UNCHANGED notRra3Vars

\* Save the run-time dictionary, go back to homeDir, next subject.
SaveAndReturnHome ==
    /\ rPc = "save"
    /\ rSaved' = rSaved \cup { subList[rSubject] }
    /\ rCwd' = homeDir
    /\ rSubject' = rSubject + 1
    /\ rPc' = IF rSubject < NumSubjects THEN "subject" ELSE "done"
    /\ UNCHANGED << rraIter, rCycle, rGaitTimings, rTool, rFiles, rRuns,
                    rra3RunTimeData, rError >>
    /\ UNCHANGED notRra3Vars

Rra3Next ==
    \/ StartSubject
    \/ EnterRRA3
    \/ StartIteration
    \/ ConfigureTool
    \/ RunTool
    \/ AdjustAndInverseDynamics
    \/ EndIteration
    \/ SaveAndReturnHome

\* -- properties of the iterative RRA --------------------------------------

C8_KinematicsKeptFromIK ==
    \A run \in rRuns :
        /\ run.kinematics.kind = "ik"
        /\ run.iter > 1 =>
              /\ run.model.kind = "adjusted_model"
              /\ run.model.iter = run.iter - 1

\* The trial-level directory of the iterative RRA of a subject.
TrialDir(subject) == << "data", "HamnerDelp2013", subject, "rra3", runLabel >>

\* Iteration k of the subject has written the adjusted model and the
\* kinematics of every cycle.
IterationWritten(subject, k) ==
    \A c \in DOMAIN cycleList :
        LET model == TrialDir(subject) \o
                        << IterDir(k), cycleList[c],
                           AdjustedModelName(subject, cycleList[c], k) >>
            kin == TrialDir(subject) \o
                        << IterDir(k), cycleList[c],
                           KinematicsName(subject, cycleList[c], k) >>
        IN /\ model \in DOMAIN rFiles
           /\ rFiles[model] =
                 FileContent("adjusted_model", subject, k, cycleList[c], 0, 0)
           /\ kin \in DOMAIN rFiles
           /\ rFiles[kin].kind = "kinematics"
           /\ rFiles[kin].subject = subject
           /\ rFiles[kin].iter = k
           /\ rFiles[kin].cycle = cycleList[c]

C26_ThreeRunTimes ==
    rPc = "save" =>
        \A c \in DOMAIN cycleList :
            /\ Len(rra3RunTimeData[c]) = 3
            /\ \A k \in 1..3 :
                  rra3RunTimeData[c][k] =
                      [ subject |-> subList[rSubject], iter |-> k ]

\* The iterative RRA of the last subject is complete.
C26_Witness ==
    /\ rPc = "save"
    /\ rSubject = NumSubjects
    /\ rSubject > 1
    /\ subList[1] \in rSaved

\* ------------------------------------------------------------------------
\* SpecCollate: "Read in and compare kinematics" for one subject
\* ------------------------------------------------------------------------

toolList == << "IK", "RRA", "RRA3", "Moco", "AddBiomechanics" >>

Tools == { toolList[i] : i \in DOMAIN toolList }

Cycles == { cycleList[i] : i \in DOMAIN cycleList }

\* One translation and one rotation of kinematicVars.
KinematicVars == { "pelvis_tx", "knee_angle_r" }

TranslationVars == { "pelvis_tx", "pelvis_ty", "pelvis_tz" }

\* Floor of the square root (np.sqrt in fixed point).
RECURSIVE SqrtSearch(_, _, _)
SqrtSearch(n, lo, hi) ==
    IF lo >= hi THEN lo
    ELSE LET mid == (lo + hi + 1) \div 2
         IN IF mid * mid <= n THEN SqrtSearch(n, mid, hi)
            ELSE SqrtSearch(n, lo, mid - 1)

Sqrt(n) == SqrtSearch(n, 0, IF n > 46340 THEN 46340 ELSE n)

\* np.mean of a non-empty array.
Mean(s) == SumSeq(s) \div Len(s)

\* np.rad2deg: degrees = radians * 180 / pi, with pi = 355/113.
Rad2Deg(v) == (v * 180 * 113) \div 355

\* First and last time of a cycle in the subject's trial.
CycleStart(c) == 1 + (c - 1) * CycleLen

CycleEnd(c) == 1 + c * CycleLen

\* Time column of the IK and AddBiomechanics results: the whole trial.
TrialTime == [ i \in 1..(Len(cycleList) * CycleLen + 3) |-> i - 1 ]

\* Result files of the tools that are run per cycle (RRA, RRA3, Moco): one
\* sample per tick of the cycle, with an amplitude that differs by tool and
\* cycle.
CycleTime(c) == [ i \in 1..(CycleLen + 1) |-> CycleStart(c) + i - 1 ]

CycleValues(c, level) ==
    [ i \in 1..(CycleLen + 1) |-> ValueUnit * level * (CycleStart(c) + i - 1) ]

IkValues == [ i \in DOMAIN TrialTime |-> ValueUnit * TrialTime[i] ]

AbValues(level) ==
    [ i \in DOMAIN TrialTime |-> ValueUnit * (TrialTime[i] + level) ]

\* Moco and AddBiomechanics store joint angles in radians.
ToDegrees_everyVariable(var, values) ==
    [ i \in DOMAIN values |-> Rad2Deg(values[i]) ]

ToDegrees(var, values) ==
    IF var \in TranslationVars THEN values
    ELSE [ i \in DOMAIN values |-> Rad2Deg(values[i]) ]

ZeroKinematics == [ t \in Tools |-> [ c \in Cycles |-> ZeroCurve ] ]

ZeroRMSE ==
    [ outer \in Tools |-> [ inner \in Tools |->
        [ c \in Cycles \cup { "mean" } |-> 0 ] ] ]

NoData == [ time |-> << >>, value |-> << >> ]

\* The tools that are run once per cycle and leave one result file per cycle.
CycleTools == { "RRA", "RRA3", "Moco" }

NoRawLevel == [ t \in CycleTools |-> [ c \in Cycles |-> 0 ] ]

CollateIdle ==
    /\ kPc = "idle"
    /\ kVar = "pelvis_tx"
    /\ kCycle = 0
    /\ kIkData = NoData
    /\ kAbLevel = 0
    /\ kRawLevel = NoRawLevel
    /\ kKinematics = ZeroKinematics
    /\ kRMSE = ZeroRMSE
    /\ kMissing = {}
    /\ kSaved = FALSE
    /\ kError = "none"

\* The dictionaries of the block are created filled with zeros; the subject
\* has one AddBiomechanics result for the trial.
CollateInit ==
    /\ kPc = "loadIK"
    /\ kVar \in KinematicVars
    /\ kCycle = 0
    /\ kIkData = NoData
    /\ kAbLevel \in 0..MaxLevel
    /\ kRawLevel = NoRawLevel
    /\ kKinematics = ZeroKinematics
    /\ kRMSE = ZeroRMSE
    /\ kMissing = {}
    /\ kSaved = FALSE
    /\ kError = "none"

CollateAbort(err) ==
    /\ kPc' = "aborted"
    /\ kError' = err

\* What the read of an absent result file raises: the AddBiomechanics result
\* is read with pd.read_csv, the others with osim.TimeSeriesTable.
MissingError(t) ==
    IF t = "AddBiomechanics" THEN "FileNotFoundError" ELSE "RuntimeError"

\* "Load in original IK kinematics": the table is read, or the read raises.
LoadIK ==
    /\ kPc = "loadIK"
    /\ \/ /\ kIkData' = [ time |-> TrialTime, value |-> IkValues ]
          /\ kCycle' = 1
          /\ kPc' = "cycle"
          /\ UNCHANGED << kMissing, kError >>
       \/ /\ kMissing' = kMissing \cup { << "IK", "trial" >> }
          /\ CollateAbort("RuntimeError")
          /\ UNCHANGED << kIkData, kCycle >>
    /\ UNCHANGED << kVar, kAbLevel, kRawLevel, kKinematics, kRMSE, kSaved >>
    /\ UNCHANGED notCollateVars

\* The curves of the five tools for one cycle, from the loaded tables.
CycleCurves(var, c, ikData, abLevel, rraLevel, rra3Level, mocoLevel) ==
    LET initialTime == CycleTime(c)[1]
        finalTime == CycleTime(c)[Len(CycleTime(c))]
        initialInd == StartIndex(ikData.time, initialTime)
        finalInd == StopIndex(ikData.time, finalTime)
        addBiomechStart == StartIndex(TrialTime, initialTime)
        addBiomechStop == StopIndex(TrialTime, finalTime)
        addBiomechKinematicVar ==
            PySlice(ToDegrees(var, AbValues(abLevel)), addBiomechStart, addBiomechStop)
        addBiomechTimeCycle == PySlice(TrialTime, addBiomechStart, addBiomechStop)
        ikKinematicVar == PySlice(ikData.value, initialInd, finalInd)
        ikTimeCycle == PySlice(ikData.time, initialInd, finalInd)
    IN [ t \in Tools |->
           CASE t = "RRA" -> Normalise(CycleTime(c), CycleValues(c, rraLevel))
             [] t = "RRA3" -> Normalise(CycleTime(c), CycleValues(c, rra3Level))
             [] t = "Moco" ->
                   Normalise(CycleTime(c), ToDegrees(var, CycleValues(c, mocoLevel)))
             [] t = "AddBiomechanics" ->
                   IF addBiomechTimeCycle = << >> THEN << >>
                   ELSE Normalise(addBiomechTimeCycle, addBiomechKinematicVar)
             [] t = "IK" ->
                   IF ikTimeCycle = << >> THEN << >>
                   ELSE Normalise(ikTimeCycle, ikKinematicVar) ]

\* One pass of "Loop through cycles, load and normalise gait cycle to 101
\* points".  Each of the four result files is read; a file that is not there
\* raises and ends the script.  An empty IK or AddBiomechanics window raises
\* in interp1d.
LoadCycle ==
    /\ kPc = "cycle"
    /\ \/ \E rraLevel, rra3Level, mocoLevel \in 0..MaxLevel :
             LET curves == CycleCurves(kVar, kCycle, kIkData, kAbLevel,
                                       rraLevel, rra3Level, mocoLevel)
             IN IF \E t \in Tools : curves[t] = << >>
                THEN /\ CollateAbort("ValueError")
                     /\ UNCHANGED << kKinematics, kRawLevel, kCycle, kMissing >>
                ELSE /\ kRawLevel' =
                           [ t \in CycleTools |->
                               [ kRawLevel[t] EXCEPT
                                   ![cycleList[kCycle]] =
                                       CASE t = "RRA" -> rraLevel
                                         [] t = "RRA3" -> rra3Level
                                         [] t = "Moco" -> mocoLevel ] ]
                     /\ kKinematics' =
                           [ t \in Tools |->
                               [ kKinematics[t] EXCEPT
                                   ![cycleList[kCycle]] = curves[t] ] ]
                     /\ IF kCycle < Len(cycleList)
                        THEN /\ kCycle' = kCycle + 1
                             /\ kPc' = "cycle"
                        ELSE /\ kCycle' = 1
                             /\ kPc' = "rmse"
                     /\ UNCHANGED << kMissing, kError >>
       \/ \E t \in Tools \ { "IK" } :
             /\ kMissing' = kMissing \cup { << t, cycleList[kCycle] >> }
             /\ CollateAbort(MissingError(t))
             /\ UNCHANGED << kKinematics, kRawLevel, kCycle >>
    /\ UNCHANGED << kVar, kIkData, kAbLevel, kRMSE, kSaved >>
    /\ UNCHANGED notCollateVars

\* Root-mean-square difference of two curves.
RMSE(a, b) ==
    Sqrt(Mean([ i \in DOMAIN a |-> (a[i] - b[i]) * (a[i] - b[i]) ]))

\* The value the block stores for the pair (outer, inner) in a cycle.
CycleRMSE_mixedCycles(kinematics, outer, inner, cycle) ==
    RMSE(kinematics[outer]["cycle1"], kinematics[inner][cycle])

CycleRMSE(kinematics, outer, inner, cycle) ==
    RMSE(kinematics[outer]["cycle1"], kinematics[inner]["cycle1"])

\* One pass of "Loop through cycles" of the RMSE block: the 25 entries of
\* the cycle.
CompareCycle ==
    /\ kPc = "rmse"
    /\ kRMSE' =
          [ outer \in Tools |-> [ inner \in Tools |->
              [ kRMSE[outer][inner] EXCEPT
                  ![cycleList[kCycle]] =
                      CycleRMSE(kKinematics, outer, inner, cycleList[kCycle]) ] ] ]
    /\ IF kCycle < Len(cycleList)
       THEN /\ kCycle' = kCycle + 1
            /\ kPc' = "rmse"
       ELSE /\ kCycle' = kCycle
            /\ kPc' = "mean"
    /\ UNCHANGED << kVar, kIkData, kAbLevel, kRawLevel, kKinematics, kMissing,
                    kSaved, kError >>
    /\ UNCHANGED notCollateVars

\* np.mean([<outer>KinematicsRMSE[inner][runLabel][cycle][var]
\*          for cycle in cycleList])
MeanOverCycles(entry) ==
    Mean([ i \in DOMAIN cycleList |-> entry[cycleList[i]] ])

\* "Calculate mean RMSE across all cycles".
MeanRMSE ==
    /\ kPc = "mean"
    /\ kRMSE' =
          [ outer \in Tools |-> [ inner \in Tools |->
              [ kRMSE[outer][inner] EXCEPT
                  !["mean"] = MeanOverCycles(kRMSE[outer][inner]) ] ] ]
    /\ kPc' = "save"
    /\ UNCHANGED << kVar, kCycle, kIkData, kAbLevel, kRawLevel, kKinematics,
                    kMissing, kSaved, kError >>
    /\ UNCHANGED notCollateVars

\* "Save kinematic RMSE data dictionaries".
SaveRMSE ==
    /\ kPc = "save"
    /\ kSaved' = TRUE
    /\ kPc' = "done"
    /\ UNCHANGED << kVar, kCycle, kIkData, kAbLevel, kRawLevel, kKinematics,
                    kRMSE, kMissing, kError >>
    /\ UNCHANGED notCollateVars

CollateNext ==
    \/ LoadIK
    \/ LoadCycle
    \/ CompareCycle
    \/ MeanRMSE
    \/ SaveRMSE

\* -- properties of the kinematics comparison ------------------------------

\* The cycles whose 25 RMSE entries have been stored.
ComparedCycles ==
    IF kPc = "rmse" THEN { cycleList[i] : i \in 1..(kCycle - 1) }
    ELSE IF kPc \in { "mean", "save", "done" } THEN Cycles
    ELSE {}

MeanStored == kPc \in { "save", "done" }

\* The cycles whose curves have been stored.
LoadedCycles ==
    IF kPc = "cycle" THEN { cycleList[i] : i \in 1..(kCycle - 1) }
    ELSE IF kPc \in { "rmse", "mean", "save", "done" } THEN Cycles
    ELSE {}

CycleIndex(c) == CHOOSE i \in DOMAIN cycleList : cycleList[i] = c

\* Canonical units of a raw value: metres for a translation as stored by
\* every tool, degrees for a rotation, which Moco and AddBiomechanics store
\* in radians and IK, RRA and RRA3 in degrees.
Canonical(t, var, v) ==
    IF var \in TranslationVars THEN v
    ELSE IF t \in { "Moco", "AddBiomechanics" } THEN (v * 180 * 113) \div 355
    ELSE v

\* The raw channel of a tool over a cycle, as read from its result file.
RawWindow(t, c) ==
    LET n == CycleIndex(c)
        first == StartIndex(TrialTime, CycleStart(n)) + 1
        last == StopIndex(TrialTime, CycleEnd(n))
    IN IF t \in CycleTools
       THEN [ time |-> CycleTime(n), value |-> CycleValues(n, kRawLevel[t][c]) ]
       ELSE [ time |-> SubSeq(TrialTime, first, last),
              value |-> SubSeq(IF t = "IK" THEN IkValues ELSE AbValues(kAbLevel),
                               first, last) ]

\* C13: every stored curve is the tool's raw channel in canonical units: a
\* translation is passed through for every tool, a rotation is multiplied by
\* 180/pi once for Moco and AddBiomechanics and passed through for IK, RRA
\* and RRA3.
C13_CanonicalUnits ==
    \A c \in LoadedCycles : \A t \in Tools :
        LET raw == RawWindow(t, c)
        IN kKinematics[t][c] =
              Normalise(raw.time,
                        [ i \in DOMAIN raw.value |-> Canonical(t, kVar, raw.value[i]) ])

\* Stored curves of a rotation with non-zero Moco and RRA results that
\* differ after the conversion.
C13_Witness ==
    /\ kPc = "done"
    /\ kVar = "knee_angle_r"
    /\ kRawLevel["Moco"]["cycle2"] > 0
    /\ kRawLevel["RRA"]["cycle2"] > 0
    /\ kKinematics["Moco"]["cycle2"] # kKinematics["RRA"]["cycle2"]

\* C1: the RMSE stored for the pair (A, B) and cycle c is the root mean
\* square difference of the curves of A and B of that same cycle c.
C1_RmseOfSameCycle ==
    \A c \in ComparedCycles : \A outer, inner \in Tools :
        kRMSE[outer][inner][c] = RMSE(kKinematics[outer][c], kKinematics[inner][c])

\* C5: a result file that is absent for a cycle does not end the run with an
\* exception: the tool is left out and the other pairs are still compared.
C5_MissingMethodOmitted ==
    kMissing # {} =>
        /\ kError = "none"
        /\ kPc # "aborted"

\* C9: the stored comparison values, per cycle and for the mean, are
\* symmetric in the two tools and zero for a tool against itself.
C9_SymmetricZeroDiagonal ==
    \A c \in ComparedCycles \cup (IF MeanStored THEN { "mean" } ELSE {}) :
        \A outer, inner \in Tools :
            /\ kRMSE[outer][inner][c] = kRMSE[inner][outer][c]
            /\ kRMSE[outer][outer][c] = 0

\* All entries are stored, two tools differ in the stored mean, and the
\* curves of those two tools differ between cycles.
C9_Witness ==
    /\ kPc = "done"
    /\ \E outer, inner \in Tools :
          /\ kRMSE[outer][inner]["mean"] > 0
          /\ kKinematics[outer]["cycle2"] # kKinematics[outer]["cycle1"]
          /\ kKinematics[inner]["cycle3"] # kKinematics[inner]["cycle1"]

\* C10: the stored mean of a pair is the arithmetic mean over the cycles of
\* the trial of the RMSE of the pair's curves in each cycle; it is 0 when the
\* two tools' curves are identical in every cycle.
C10_MeanOfCycleRMSE ==
    MeanStored =>
        \A outer, inner \in Tools :
            /\ kRMSE[outer][inner]["mean"] =
                  Mean([ i \in DOMAIN cycleList |->
                           RMSE(kKinematics[outer][cycleList[i]],
                                kKinematics[inner][cycleList[i]]) ])
            /\ (\A c \in Cycles : kKinematics[outer][c] = kKinematics[inner][c])
                  => kRMSE[outer][inner]["mean"] = 0

\* The mean step as coded: the mean of the three stored per-cycle entries.
MeanIsOfStoredEntries ==
    MeanStored =>
        \A outer, inner \in Tools :
            3 * kRMSE[outer][inner]["mean"] <=
                  kRMSE[outer][inner]["cycle1"] + kRMSE[outer][inner]["cycle2"]
                      + kRMSE[outer][inner]["cycle3"]
            /\ kRMSE[outer][inner]["cycle1"] + kRMSE[outer][inner]["cycle2"]
                      + kRMSE[outer][inner]["cycle3"]
                  < 3 * kRMSE[outer][inner]["mean"] + 3

\* ------------------------------------------------------------------------
\* SpecBatch: the subject loops of the collation and analysis scripts
\* ------------------------------------------------------------------------

\* The tools whose run time the analysis reports.
SolverTools == { "RRA", "RRA3", "Moco", "AddBiomechanics" }

ToolIndex(t) == CHOOSE i \in DOMAIN toolList : toolList[i] = t

NoOutput == 0

\* The mean RMSE a subject's collation pickles hold for a pair of tools: the
\* subject's amplitude times the distance of the two tools.
SubjectRMSE(amplitude, outer, inner) ==
    amplitude * ValueUnit * Abs(ToolIndex(outer) - ToolIndex(inner))

\* The analysis reports run times, held in seconds, in minutes.
SecondsPerMinute == 60

\* The mean run time over the cycles, in seconds, that a subject's run-time
\* files hold for a tool: the subject's level times the position of the
\* tool, in minutes.
SubjectRunTime(level, tool) == SecondsPerMinute * level * ToolIndex(tool)

\* The cells of the comparison that the analysis reports: outer # inner.
Cells == { c \in Tools \X Tools : c[1] # c[2] }

ZeroArray == [ i \in 1..NumSubjects |-> 0 ]

NoStats == << >>

\* np.std: the population standard deviation.
Std(s) ==
    LET m == Mean(s)
    IN Sqrt(Mean([ i \in DOMAIN s |-> (s[i] - m) * (s[i] - m) ]))

BatchIdle ==
    /\ bData = << >>
    /\ bCollatePc = "idle"
    /\ bAnalysePc = "idle"
    /\ bSubject = 0
    /\ bOutputs = << >>
    /\ solutionTimes = << >>
    /\ kinematicsRMSD = << >>
    /\ bAccumulated = {}
    /\ bStats = NoStats
    /\ solutionTimeStats = NoStats
    /\ bError = [ collate |-> "none", analyse |-> "none" ]

\* Each subject has the results of all five tools or lacks those of one.
BatchInit ==
    /\ bData \in [ 1..NumSubjects -> { Tools \ { t } : t \in Tools } \cup { Tools } ]
    /\ bCollatePc = "subject"
    /\ bAnalysePc = "notStarted"
    /\ bSubject = 1
    /\ bOutputs = [ i \in 1..NumSubjects |-> NoOutput ]
    /\ solutionTimes = [ t \in SolverTools |-> ZeroArray ]
    /\ kinematicsRMSD = [ outer \in Tools |-> [ inner \in Tools |-> ZeroArray ] ]
    /\ bAccumulated = {}
    /\ bStats = NoStats
    /\ solutionTimeStats = NoStats
    /\ bError = [ collate |-> "none", analyse |-> "none" ]

\* One pass of "for subject in subList" of the collation script: every read
\* of a result file is outside any try block, so a missing result ends the
\* script; otherwise the subject's pickles are written.
CollateSubject ==
    /\ bCollatePc = "subject"
    /\ IF bData[bSubject] = Tools
       THEN /\ \E amplitude \in 1..(MaxLevel + 1) :
                  bOutputs' = [ bOutputs EXCEPT ![bSubject] = amplitude ]
            /\ IF bSubject < NumSubjects
               THEN /\ bSubject' = bSubject + 1
                    /\ bCollatePc' = "subject"
               ELSE /\ bSubject' = bSubject
                    /\ bCollatePc' = "done"
            /\ UNCHANGED bError
       ELSE /\ bCollatePc' = "aborted"
            /\ bError' =
                  [ bError EXCEPT
                      !.collate =
                          MissingError(CHOOSE t \in Tools : t \notin bData[bSubject]) ]
            /\ UNCHANGED << bOutputs, bSubject >>
    /\ UNCHANGED << bData, bAnalysePc, solutionTimes, kinematicsRMSD,
                    bAccumulated, bStats, solutionTimeStats >>
    /\ UNCHANGED notBatchVars

\* The analysis script is started once the collation script has ended.
StartAnalysis ==
    /\ bCollatePc \in { "done", "aborted" }
    /\ bAnalysePc = "notStarted"
    /\ bAnalysePc' = "times"
    /\ bSubject' = 1
    /\ UNCHANGED << bData, bCollatePc, bOutputs, solutionTimes, kinematicsRMSD,
                    bAccumulated, bStats, solutionTimeStats, bError >>
    /\ UNCHANGED notBatchVars

AnalysisAbort(err) ==
    /\ bAnalysePc' = "aborted"
    /\ bError' = [ bError EXCEPT !.analyse = err ]

\* A loop that is left after its first pass.
NextSubjectOr_firstOnly(loop, after) ==
    /\ bSubject' = 1
    /\ bAnalysePc' = after

\* Step of a subject loop of the analysis script and entry of what follows.
NextSubjectOr(loop, after) ==
    IF bSubject < NumSubjects
    THEN /\ bSubject' = bSubject + 1
         /\ bAnalysePc' = loop
    ELSE /\ bSubject' = 1
         /\ bAnalysePc' = after

\* One pass of the subject loop of "Extract solution times": the run-time
\* pickles and the processing log of the subject are opened.
ExtractSolutionTimes ==
    /\ bAnalysePc = "times"
    /\ IF SolverTools \subseteq bData[bSubject]
       THEN /\ \E level \in 1..(MaxLevel + 1) :
                  solutionTimes' =
                      [ t \in SolverTools |->
                          [ solutionTimes[t] EXCEPT
                              ![bSubject] = SubjectRunTime(level, t) ] ]
            /\ bAccumulated' = bAccumulated \cup { << "times", bSubject >> }
            /\ NextSubjectOr("times", "timeStats")
            /\ UNCHANGED bError
       ELSE /\ AnalysisAbort("FileNotFoundError")
            /\ UNCHANGED << solutionTimes, bAccumulated, bSubject >>
    /\ UNCHANGED << bData, bCollatePc, bOutputs, kinematicsRMSD, bStats,
                    solutionTimeStats >>
    /\ UNCHANGED notBatchVars

\* The run times of the subjects in minutes: solutionTimes[tool] / 60.
ToMinutes(values) == [ i \in DOMAIN values |-> values[i] \div SecondsPerMinute ]

\* "Average and display these results": mean and standard deviation, in
\* minutes, of each solver's array, which has one slot per subject.
SolutionTimeStats ==
    /\ bAnalysePc = "timeStats"
    /\ solutionTimeStats' =
          [ t \in SolverTools |->
              [ mean |-> Mean(ToMinutes(solutionTimes[t])),
                std |-> Std(ToMinutes(solutionTimes[t])) ] ]
    /\ bAnalysePc' = "residuals"
    /\ UNCHANGED << bData, bCollatePc, bSubject, bOutputs, solutionTimes,
                    kinematicsRMSD, bAccumulated, bStats, bError >>
    /\ UNCHANGED notBatchVars

\* One pass of the subject loop of "Extract average and peak residual
\* forces/moments": the residual pickles the collation wrote are opened.
ExtractResiduals ==
    /\ bAnalysePc = "residuals"
    /\ IF bOutputs[bSubject] # NoOutput
       THEN /\ bAccumulated' = bAccumulated \cup { << "residuals", bSubject >> }
            /\ NextSubjectOr("residuals", "rmsd")
            /\ UNCHANGED bError
       ELSE /\ AnalysisAbort("FileNotFoundError")
            /\ UNCHANGED << bAccumulated, bSubject >>
    /\ UNCHANGED << bData, bCollatePc, bOutputs, solutionTimes, kinematicsRMSD,
                    bStats, solutionTimeStats >>
    /\ UNCHANGED notBatchVars

\* One pass of the subject loop of "Extract root mean square deviations of
\* kinematic data": the RMSE pickles are opened and the means copied.
ExtractRMSD ==
    /\ bAnalysePc = "rmsd"
    /\ IF bOutputs[bSubject] # NoOutput
       THEN /\ kinematicsRMSD' =
                  [ outer \in Tools |-> [ inner \in Tools |->
                      [ kinematicsRMSD[outer][inner] EXCEPT
                          ![bSubject] =
                              SubjectRMSE(bOutputs[bSubject], outer, inner) ] ] ]
            /\ bAccumulated' = bAccumulated \cup { << "rmsd", bSubject >> }
            /\ NextSubjectOr("rmsd", "stats")
            /\ UNCHANGED bError
       ELSE /\ AnalysisAbort("FileNotFoundError")
            /\ UNCHANGED << kinematicsRMSD, bAccumulated, bSubject >>
    /\ UNCHANGED << bData, bCollatePc, bOutputs, solutionTimes, bStats,
                    solutionTimeStats >>
    /\ UNCHANGED notBatchVars

\* "Average and display results for variables": mean and standard deviation
\* of each cell's array, which has one slot per subject of subList.
CellStats(values) == [ mean |-> Mean(values), std |-> Std(values) ]

GroupStats ==
    /\ bAnalysePc = "stats"
    /\ bStats' = [ c \in Cells |-> CellStats(kinematicsRMSD[c[1]][c[2]]) ]
    /\ bAnalysePc' = "done"
    /\ UNCHANGED << bData, bCollatePc, bSubject, bOutputs, solutionTimes,
                    kinematicsRMSD, bAccumulated, solutionTimeStats, bError >>
    /\ UNCHANGED notBatchVars

BatchNext ==
    \/ CollateSubject
    \/ StartAnalysis
    \/ ExtractSolutionTimes
    \/ SolutionTimeStats
    \/ ExtractResiduals
    \/ ExtractRMSD
    \/ GroupStats

\* -- properties of the subject loops --------------------------------------

Complete(i) == bData[i] = Tools

CollateEnded == bCollatePc \in { "done", "aborted" }

AnalysisEnded == bAnalysePc \in { "done", "aborted" }

\* C4: when one subject's processing fails, every other subject is still
\* processed, the batch is not aborted, and the group statistics are computed
\* without the failed subject.
C4_FailureIsolated ==
    /\ CollateEnded =>
          /\ bCollatePc = "done"
          /\ \A i \in 1..NumSubjects : Complete(i) => bOutputs[i] # NoOutput
    /\ AnalysisEnded =>
          /\ bAnalysePc = "done"
          /\ \A i \in 1..NumSubjects :
                Complete(i) <=> << "rmsd", i >> \in bAccumulated

\* The subjects that have a value for the cell (outer, inner).
Contributors(outer, inner) ==
    { i \in 1..NumSubjects : { outer, inner } \subseteq bData[i] }

\* C6: every group cell reports the number of subjects that contributed to
\* it, and its mean is taken over those subjects only; a subject without
\* data for one tool is counted in every cell not involving that tool.
C6_SampleCountTracked ==
    AnalysisEnded =>
        /\ bStats # NoStats
        /\ \A c \in Cells :
              /\ "n" \in DOMAIN bStats[c]
              /\ bStats[c].n = Cardinality(Contributors(c[1], c[2]))

Accumulated(quantity) ==
    \A i \in 1..NumSubjects : << quantity, i >> \in bAccumulated

\* C20: the group mean and standard deviation of a quantity are computed
\* only after every subject of the subject list has been accumulated for
\* that quantity, and they are those of the filled accumulator: the stored
\* statistics of the solution times and of the kinematic deviations are the
\* statistics of arrays that hold the value of every subject.
C20_StatsAfterAccumulation ==
    /\ solutionTimeStats # NoStats =>
          /\ Accumulated("times")
          /\ \A t \in SolverTools :
                /\ \A i \in 1..NumSubjects : solutionTimes[t][i] > 0
                /\ solutionTimeStats[t].mean = Mean(ToMinutes(solutionTimes[t]))
                /\ solutionTimeStats[t].std = Std(ToMinutes(solutionTimes[t]))
    /\ bStats # NoStats =>
          /\ Accumulated("rmsd")
          /\ \A c \in Cells :
                /\ \A i \in 1..NumSubjects : kinematicsRMSD[c[1]][c[2]][i] > 0
                /\ bStats[c] = CellStats(kinematicsRMSD[c[1]][c[2]])

\* Both sets of statistics have been computed from subjects whose values
\* differ, so that a partly filled accumulator would give other statistics.
C20_Witness ==
    /\ bAnalysePc = "done"
    /\ solutionTimeStats # NoStats
    /\ bStats # NoStats
    /\ solutionTimes["Moco"][1] # solutionTimes["Moco"][NumSubjects]
    /\ solutionTimeStats["Moco"].std > 0
    /\ bOutputs[1] # bOutputs[NumSubjects]

\* ------------------------------------------------------------------------
\* SpecRunTime: one subject's pass of "Extract solution times"
\* ------------------------------------------------------------------------

IpoptKey == "Total seconds in IPOPT"

\* A line of the processing log: its wording and the decimal numbers that
\* re.findall('\d+\.\d+', textLine) finds in it, in order.
IpoptLine(seconds) ==
    [ label |-> IpoptKey, numbers |-> << seconds * RunTimeUnit >> ]

OtherLine == [ label |-> "Objective", numbers |-> << MaxRunTime * RunTimeUnit >> ]

LogLines == { IpoptLine(s) : s \in 1..MaxRunTime } \cup { OtherLine }

Logs == UNION { [ 1..n -> LogLines ] : n \in 0..MaxLines }

\* gaitTimes.pkl of a trial whose cycles follow one another and last
\* duration[c] ticks.
RECURSIVE CycleInitialTime(_, _)
CycleInitialTime(duration, c) ==
    IF c = 1 THEN 0 ELSE CycleInitialTime(duration, c - 1) + duration[c - 1]

GaitTimingsOf(duration) ==
    [ c \in DOMAIN cycleList |->
        [ initialTime |-> CycleInitialTime(duration, c),
          finalTime |-> CycleInitialTime(duration, c) + duration[c] ] ]

\* Run-time pickles written by runSimulations.py: one duration per cycle for
\* RRA and Moco, one duration per iteration and cycle for RRA3.
SingleRunTimes(level) ==
    [ c \in DOMAIN cycleList |-> (level + c - 1) * RunTimeUnit ]

IteratedRunTimes(levels) ==
    [ c \in DOMAIN cycleList |->
        [ k \in 1..3 |-> (levels[k] + c - 1) * RunTimeUnit ] ]

NoSolutionTimes == [ t \in { "rra", "rra3", "moco", "addBiomech" } |-> 0 ]

RunTimeIdle ==
    /\ tPc = "idle"
    /\ tGaitTimings = NoGaitTimings
    /\ tRraRunTime = << >>
    /\ tRra3RunTime = << >>
    /\ tMocoRunTime = << >>
    /\ tLog = << >>
    /\ tTrcTime = << >>
    /\ addBiomechanicsTime = 0
    /\ addBiomechanicsTimeScaled = 0
    /\ tSolutionTimes = NoSolutionTimes

\* The subject's gait timings and run-time pickles are loaded; the log and
\* the marker file of the AddBiomechanics trial are on disk.  The marker file
\* covers the cycles and one more tick.
RunTimeInit ==
    /\ tPc = "log"
    /\ \E duration \in [ DOMAIN cycleList -> { CycleLen, CycleLen + 1 } ] :
          /\ tGaitTimings = GaitTimingsOf(duration)
          /\ tTrcTime = << 0, GaitTimingsOf(duration)[Len(cycleList)].finalTime + 1 >>
    /\ \E level \in 1..MaxRunTime : tRraRunTime = SingleRunTimes(level)
    /\ \E levels \in [ 1..3 -> 1..MaxRunTime ] : tRra3RunTime = IteratedRunTimes(levels)
    /\ \E level \in 1..MaxRunTime : tMocoRunTime = SingleRunTimes(level)
    /\ tLog \in Logs
    /\ addBiomechanicsTime = 0
    /\ addBiomechanicsTimeScaled = 0
    /\ tSolutionTimes = NoSolutionTimes

\* for textLine in logText: if 'Total seconds in IPOPT' in textLine:
\*     addBiomechanicsTime += float(re.findall('\d+\.\d+', textLine)[0])
RECURSIVE SumIpoptSeconds_lastLineOnly(_)
SumIpoptSeconds_lastLineOnly(log) ==
    IF log = << >> THEN 0
    ELSE LET line == log[Len(log)]
         IN IF line.label = IpoptKey THEN line.numbers[1]
            ELSE SumIpoptSeconds_lastLineOnly(SubSeq(log, 1, Len(log) - 1))

RECURSIVE SumIpoptSeconds(_)
SumIpoptSeconds(log) ==
    IF log = << >> THEN 0
    ELSE (IF Head(log).label = IpoptKey THEN Head(log).numbers[1] ELSE 0)
             + SumIpoptSeconds(Tail(log))

ReadProcessingLog ==
    /\ tPc = "log"
    /\ addBiomechanicsTime' = SumIpoptSeconds(tLog)
    /\ tPc' = "scale"
    /\ UNCHANGED << tGaitTimings, tRraRunTime, tRra3RunTime, tMocoRunTime, tLog,
                    tTrcTime, addBiomechanicsTimeScaled, tSolutionTimes >>
    /\ UNCHANGED notRunTimeVars

\* The durations of the cycles, whose mean is avgCycleDuration.
CycleDurations(gaitTimings) ==
    [ c \in DOMAIN cycleList |->
        gaitTimings[c].finalTime - gaitTimings[c].initialTime ]

\* addBiomechDuration = addBiomechTime[-1] - addBiomechTime[0]
AddBiomechDuration(time) == time[Len(time)] - time[1]

\* addBiomechanicsTime * (avgCycleDuration / addBiomechDuration), the mean
\* being the sum of the durations over their number.
ScaleToCycle(seconds, durations, trialDuration) ==
    (seconds * SumSeq(durations)) \div (Len(durations) * trialDuration)

ScaleAddBiomechanicsTime ==
    /\ tPc = "scale"
    /\ addBiomechanicsTimeScaled' =
          ScaleToCycle(addBiomechanicsTime, CycleDurations(tGaitTimings),
                       AddBiomechDuration(tTrcTime))
    /\ tPc' = "append"
    /\ UNCHANGED << tGaitTimings, tRraRunTime, tRra3RunTime, tMocoRunTime, tLog,
                    tTrcTime, addBiomechanicsTime, tSolutionTimes >>
    /\ UNCHANGED notRunTimeVars

\* np.sum(rra3RunTime[runLabel][cycle]['rra3RunTime'])
CycleRunTime_lastIteration(durations) == durations[Len(durations)]

CycleRunTime(durations) == SumSeq(durations)

\* "Append summary timing data to dictionary".
AppendSolutionTimes ==
    /\ tPc = "append"
    /\ tSolutionTimes' =
          [ rra |-> Mean(tRraRunTime),
            rra3 |-> Mean([ c \in DOMAIN cycleList |-> CycleRunTime(tRra3RunTime[c]) ]),
            moco |-> Mean(tMocoRunTime),
            addBiomech |-> addBiomechanicsTimeScaled ]
    /\ tPc' = "done"
    /\ UNCHANGED << tGaitTimings, tRraRunTime, tRra3RunTime, tMocoRunTime, tLog,
                    tTrcTime, addBiomechanicsTime, addBiomechanicsTimeScaled >>
    /\ UNCHANGED notRunTimeVars

RunTimeNext ==
    \/ ReadProcessingLog
    \/ ScaleAddBiomechanicsTime
    \/ AppendSolutionTimes

\* -- properties of the solution times --------------------------------------

IpoptLines == { i \in DOMAIN tLog : tLog[i].label = IpoptKey }

RECURSIVE SumOver(_, _)
SumOver(f, S) ==
    IF S = {} THEN 0
    ELSE LET x == CHOOSE y \in S : TRUE IN f[x] + SumOver(f, S \ { x })

\* C16: the AddBiomechanics run time of a subject is rawDuration *
\* (meanCycleDuration / totalTrialDuration): the sum of the solver durations
\* of the log, times the mean of finalTime - initialTime over the cycles,
\* over last minus first time of the marker file.
C16_BatchRunTimeScaled ==
    tPc = "done" =>
        LET rawDuration == SumOver([ i \in IpoptLines |-> tLog[i].numbers[1] ], IpoptLines)
            cycleTotal ==
                SumOver([ c \in DOMAIN cycleList |->
                            tGaitTimings[c].finalTime - tGaitTimings[c].initialTime ],
                        DOMAIN cycleList)
            totalTrialDuration == tTrcTime[Len(tTrcTime)] - tTrcTime[1]
            scaled == tSolutionTimes["addBiomech"]
            whole == Len(cycleList) * totalTrialDuration
        IN /\ scaled * whole <= rawDuration * cycleTotal
           /\ rawDuration * cycleTotal < (scaled + 1) * whole

\* A stored run time from a log with two solver durations that differ and
\* cycles of different durations.
C16_Witness ==
    /\ tPc = "done"
    /\ \E i, j \in IpoptLines : tLog[i].numbers[1] < tLog[j].numbers[1]
    /\ \E c, d \in DOMAIN cycleList :
          tGaitTimings[c].finalTime - tGaitTimings[c].initialTime
              < tGaitTimings[d].finalTime - tGaitTimings[d].initialTime
    /\ tSolutionTimes["addBiomech"] > 0

\* C17: the RRA3 run time of a subject is the mean over the cycles of the sum
\* of the durations recorded for the cycle.
C17_IterativeRunTime ==
    tPc = "done" =>
        LET cycleSum ==
                [ c \in DOMAIN cycleList |->
                    SumOver(tRra3RunTime[c], DOMAIN tRra3RunTime[c]) ]
            total == SumOver(cycleSum, DOMAIN cycleList)
            stored == tSolutionTimes["rra3"]
        IN /\ stored * Len(cycleList) <= total
           /\ total < (stored + 1) * Len(cycleList)

\* A stored run time from iterations of different durations.
C17_Witness ==
    /\ tPc = "done"
    /\ \E c \in DOMAIN cycleList : \E k \in DOMAIN tRra3RunTime[c] :
          tRra3RunTime[c][k] # tRra3RunTime[c][Len(tRra3RunTime[c])]
    /\ tSolutionTimes["rra3"] > 0

\* ------------------------------------------------------------------------
\* SpecResiduals: one subject's residual thresholds and residuals
\* ------------------------------------------------------------------------

residualToolList == << "rra", "rra3", "moco", "addBiomech" >>

ResidualTools == { residualToolList[i] : i \in DOMAIN residualToolList }

ResidualToolIndex(t) ==
    CHOOSE i \in DOMAIN residualToolList : residualToolList[i] = t

\* A vertical force channel that rises to a peak and falls again.
GrfChannel(level) == << 0, 100 * ValueUnit * level, ValueUnit >>

\* A residual curve over the percent-cycle grid: negative at the start of
\* the cycle and positive at its end for a positive level.
ResidualCurve(t, level) ==
    [ k \in 1..NumPoints |->
        ValueUnit * level * ResidualToolIndex(t) * (k - NumPoints + 1) ]

NoThresholds == [ F |-> 0, M |-> 0 ]

NoResiduals == [ t \in ResidualTools |-> 0 ]

ResidualsIdle ==
    /\ resPc = "idle"
    /\ expGRF = << >>
    /\ staticMotion = << >>
    /\ resResiduals = << >>
    /\ collateRec = NoThresholds
    /\ residualThresholds = NoThresholds
    /\ avgResiduals = NoResiduals
    /\ peakResiduals = NoResiduals

\* The experimental data of the subject: the force file of the trial and
\* the static output of the scaled model.
ResidualsInit ==
    /\ resPc = "collate"
    /\ \E right, left \in 1..(MaxLevel + 1) :
          expGRF = [ R_ground_force_vy |-> GrfChannel(right),
                     L_ground_force_vy |-> GrfChannel(left) ]
    /\ staticMotion \in [ KinematicVars -> 0..MaxLevel ]
    /\ resResiduals = << >>
    /\ collateRec = NoThresholds
    /\ residualThresholds = NoThresholds
    /\ avgResiduals = NoResiduals
    /\ peakResiduals = NoResiduals

\* ndarray.max()
ArrayMax(a) == Max({ a[i] : i \in DOMAIN a })

\* peakVGRF = np.array((right.max(), left.max())).max()
PeakVGRF_rightOnly(grf) == ArrayMax(grf.R_ground_force_vy)

PeakVGRF(grf) ==
    ArrayMax(<< ArrayMax(grf.R_ground_force_vy), ArrayMax(grf.L_ground_force_vy) >>)

\* The model is put in the pose of the static output, one coordinate of
\* coords after the other (a coordinate that is not set stays at 0), and
\* realised; com_position then gives the height of its centre of mass, which
\* here is the standing height plus the coordinate values.
ModelCOM(static, coords) ==
    LET pose == [ c \in KinematicVars |-> IF c \in coords THEN static[c] ELSE 0 ]
    IN ValueUnit + pose["pelvis_tx"] + pose["knee_angle_r"]

\* forceResidualRec = peakVGRF * 0.05
ForceResidualRec(peakVGRF) == (peakVGRF * 5) \div 100

\* momentResidualRec = peakVGRF * modelCOM * 0.01
MomentResidualRec(peakVGRF, modelCOM) == (peakVGRF * modelCOM) \div 100

\* The coordinates the collation sets in the model: kinematicAx.keys().
kinematicAxKeys == KinematicVars

\* "Calculate residual force and moment recommendations" of the collation.
CollateThresholds ==
    /\ resPc = "collate"
    /\ collateRec' =
          [ F |-> ForceResidualRec(PeakVGRF(expGRF)),
            M |-> MomentResidualRec(PeakVGRF(expGRF),
                                    ModelCOM(staticMotion, kinematicAxKeys)) ]
    /\ resPc' = "collateResiduals"
    /\ UNCHANGED << expGRF, staticMotion, resResiduals, residualThresholds,
                    avgResiduals, peakResiduals >>
    /\ UNCHANGED notResVars

\* "Read in and compare residuals" of the collation: the residual curves of
\* the tools are normalised and pickled, cycle by cycle.
CollateResiduals ==
    /\ resPc = "collateResiduals"
    /\ \E level \in [ Cycles -> (0 - MaxLevel)..MaxLevel ] :
          resResiduals' =
              [ t \in ResidualTools |->
                  [ c \in Cycles |-> ResidualCurve(t, level[c]) ] ]
    /\ resPc' = "analyse"
    /\ UNCHANGED << expGRF, staticMotion, collateRec, residualThresholds,
                    avgResiduals, peakResiduals >>
    /\ UNCHANGED notResVars

\* The same calculation in the subject loop of the analysis, which sets the
\* coordinates of kinematicVars, and "Add residual thresholds to dictionary".
AnalyseThresholds ==
    /\ resPc = "analyse"
    /\ residualThresholds' =
          [ F |-> ForceResidualRec(PeakVGRF(expGRF)),
            M |-> MomentResidualRec(PeakVGRF(expGRF),
                                    ModelCOM(staticMotion, KinematicVars)) ]
    /\ resPc' = "residuals"
    /\ UNCHANGED << expGRF, staticMotion, resResiduals, collateRec,
                    avgResiduals, peakResiduals >>
    /\ UNCHANGED notResVars

AbsCurve(curve) == [ k \in DOMAIN curve |-> Abs(curve[k]) ]

\* np.array([np.abs(residuals[runLabel][cycle][var]).mean()
\*           for cycle in cycleList]).mean()
AvgResidual(curves) ==
    Mean([ i \in DOMAIN cycleList |-> Mean(AbsCurve(curves[cycleList[i]])) ])

\* np.array([np.abs(residuals[runLabel][cycle][var]).max()
\*           for cycle in cycleList]).mean()
PeakResidual_overAllCycles(curves) ==
    ArrayMax([ i \in DOMAIN cycleList |-> ArrayMax(AbsCurve(curves[cycleList[i]])) ])

PeakResidual(curves) ==
    Mean([ i \in DOMAIN cycleList |-> ArrayMax(AbsCurve(curves[cycleList[i]])) ])

\* "Loop through and extract peak residuals and average".
ExtractSubjectResiduals ==
    /\ resPc = "residuals"
    /\ avgResiduals' = [ t \in ResidualTools |-> AvgResidual(resResiduals[t]) ]
    /\ peakResiduals' = [ t \in ResidualTools |-> PeakResidual(resResiduals[t]) ]
    /\ resPc' = "done"
    /\ UNCHANGED << expGRF, staticMotion, resResiduals, collateRec,
                    residualThresholds >>
    /\ UNCHANGED notResVars

ResidualsNext ==
    \/ CollateThresholds
    \/ CollateResiduals
    \/ AnalyseThresholds
    \/ ExtractSubjectResiduals

\* -- properties of the thresholds and residuals ----------------------------

\* The largest sample of the two vertical force channels.
LargestVGRF ==
    CHOOSE p \in { expGRF.R_ground_force_vy[i] : i \in DOMAIN expGRF.R_ground_force_vy }
                 \cup { expGRF.L_ground_force_vy[i] : i \in DOMAIN expGRF.L_ground_force_vy } :
        /\ \A i \in DOMAIN expGRF.R_ground_force_vy : expGRF.R_ground_force_vy[i] <= p
        /\ \A i \in DOMAIN expGRF.L_ground_force_vy : expGRF.L_ground_force_vy[i] <= p

\* Height of the centre of mass in the pose of the static output.
StaticComHeight == ValueUnit + staticMotion["pelvis_tx"] + staticMotion["knee_angle_r"]

\* C18: the force threshold is peakVGRF * 0.05 and the moment threshold is
\* peakVGRF * comHeight * 0.01, peakVGRF being the larger of the maxima of
\* the right and left vertical force; the collation and the analysis obtain
\* the same two values.
C18_Thresholds ==
    resPc \in { "residuals", "done" } =>
        /\ 100 * residualThresholds.F <= 5 * LargestVGRF
        /\ 5 * LargestVGRF < 100 * (residualThresholds.F + 1)
        /\ 100 * residualThresholds.M <= LargestVGRF * StaticComHeight
        /\ LargestVGRF * StaticComHeight < 100 * (residualThresholds.M + 1)
        /\ collateRec = residualThresholds

\* Thresholds of a subject whose left force peak is above the right one and
\* whose static pose is not the default pose.
C18_Witness ==
    /\ resPc = "done"
    /\ LargestVGRF > Max({ expGRF.R_ground_force_vy[i] : i \in DOMAIN expGRF.R_ground_force_vy })
    /\ staticMotion["knee_angle_r"] > 0
    /\ residualThresholds.F > 0
    /\ residualThresholds.M > 0

\* The largest absolute value of a curve.
LargestAbs(curve) ==
    CHOOSE m \in { Abs(curve[k]) : k \in DOMAIN curve } :
        \A k \in DOMAIN curve : Abs(curve[k]) <= m

\* C19: the average residual of a subject and tool is the mean over the
\* cycles of the mean of |curve|, and the peak residual is the mean over the
\* cycles of the maximum of |curve|.
C19_AvgAndPeakResiduals ==
    resPc = "done" =>
        \A t \in ResidualTools :
            LET meanAbs ==
                    [ c \in Cycles |->
                        SumOver(AbsCurve(resResiduals[t][c]), 1..NumPoints)
                            \div NumPoints ]
                peakAbs == [ c \in Cycles |-> LargestAbs(resResiduals[t][c]) ]
            IN /\ avgResiduals[t] = SumOver(meanAbs, Cycles) \div Cardinality(Cycles)
               /\ peakResiduals[t] = SumOver(peakAbs, Cycles) \div Cardinality(Cycles)

\* Residuals of a subject whose curves differ in size between the cycles and
\* have their largest absolute value at a negative sample.
C19_Witness ==
    /\ resPc = "done"
    /\ \E t \in ResidualTools :
          /\ LargestAbs(resResiduals[t]["cycle1"]) < LargestAbs(resResiduals[t]["cycle2"])
          /\ \A k \in 1..NumPoints :
                resResiduals[t]["cycle2"][k] < LargestAbs(resResiduals[t]["cycle2"])
          /\ peakResiduals[t] > avgResiduals[t]

\* ------------------------------------------------------------------------
\* SpecGroup: group statistics and export tables of the analysis script
\* ------------------------------------------------------------------------

residualVars == << "FX", "FY", "FZ", "MX", "MY", "MZ", "F", "M" >>

ResidualVarSet == { residualVars[k] : k \in DOMAIN residualVars }

ResidualVarIndex(v) == CHOOSE k \in DOMAIN residualVars : residualVars[k] = v

forceAxes == << "FX", "FY", "FZ" >>

momentAxes == << "MX", "MY", "MZ" >>

\* The label of a tool in the Solver column of the tables.
solverLabels == << "RRA", "RRA3", "Moco", "AddBiomechanics" >>

\* The arrays the subject loops leave behind: one value per subject, which
\* differs between tools and variables.
FilledSolutionTimes(level) ==
    [ t \in ResidualTools |->
        [ i \in 1..NumSubjects |->
            SecondsPerMinute * level[i] * ResidualToolIndex(t) ] ]

FilledAvgResiduals(base) ==
    [ t \in ResidualTools |-> [ v \in ResidualVarSet |->
        [ i \in 1..NumSubjects |->
            ValueUnit * (base[i] + ResidualToolIndex(t)) * ResidualVarIndex(v) ] ] ]

FilledPeakResiduals(base, spread) ==
    [ t \in ResidualTools |-> [ v \in ResidualVarSet |->
        [ i \in 1..NumSubjects |->
            FilledAvgResiduals(base)[t][v][i]
                + ValueUnit * spread * ResidualVarIndex(v) ] ] ]

NoGroupStats == [ times |-> << >>, avg |-> << >>, peak |-> << >> ]

NoTables == << >>

GroupIdle ==
    /\ gPc = "idle"
    /\ groupSolutionTimes = << >>
    /\ groupAvgResiduals = << >>
    /\ groupPeakResiduals = << >>
    /\ gStats = NoGroupStats
    /\ gTables = NoTables

\* The state after the subject loops of "Extract solution times" and of
\* "Extract average and peak residual forces/moments".
GroupInit ==
    /\ gPc = "timeStats"
    /\ \E level \in [ 1..NumSubjects -> 1..(MaxLevel + 1) ] :
          groupSolutionTimes = FilledSolutionTimes(level)
    /\ \E base \in [ 1..NumSubjects -> 0..MaxLevel ], spread \in 0..MaxLevel :
          /\ groupAvgResiduals = FilledAvgResiduals(base)
          /\ groupPeakResiduals = FilledPeakResiduals(base, spread)
    /\ gStats = NoGroupStats
    /\ gTables = NoTables

\* ndarray / scalar assigned in place, as "values /= d" does.
Divide_inPlace(values, d) ==
    LET quotient == [ i \in DOMAIN values |-> values[i] \div d ]
    IN [ result |-> quotient, operand |-> quotient ]

\* ndarray / scalar: a new array holds the quotients, the operand is left
\* as it was.
Divide(values, d) ==
    [ result |-> [ i \in DOMAIN values |-> values[i] \div d ],
      operand |-> values ]

\* "(solutionTimes[tool]/60).mean() +/- (solutionTimes[tool]/60).std()":
\* the array is divided once for the mean and once more for the
\* standard deviation.
DisplayedTimeStats(values) ==
    LET forMean == Divide(values, SecondsPerMinute)
        forStd == Divide(forMean.operand, SecondsPerMinute)
    IN [ mean |-> Mean(forMean.result),
         std |-> Std(forStd.result),
         operand |-> forStd.operand ]

\* "Average and display these results" of the solution times.
DisplaySolutionTimes ==
    /\ gPc = "timeStats"
    /\ LET shown == [ t \in ResidualTools |-> DisplayedTimeStats(groupSolutionTimes[t]) ]
       IN /\ gStats' =
                [ gStats EXCEPT
                    !.times = [ t \in ResidualTools |->
                                  [ mean |-> shown[t].mean, std |-> shown[t].std ] ] ]
          /\ groupSolutionTimes' = [ t \in ResidualTools |-> shown[t].operand ]
    /\ gPc' = "timeTable"
    /\ UNCHANGED << groupAvgResiduals, groupPeakResiduals, gTables >>
    /\ UNCHANGED notGroupVars

\* [x] * n
Repeat(x, n) == [ k \in 1..n |-> x ]

\* Each element of the list n times in turn.
RepeatList_eachElement(list, n) ==
    [ k \in 1..(Len(list) * n) |-> list[((k - 1) \div n) + 1] ]

\* list * n
RepeatList(list, n) ==
    [ k \in 1..(Len(list) * n) |-> list[((k - 1) % Len(list)) + 1] ]

\* The concatenation of the lists of a list, in order.
RECURSIVE Chain(_)
Chain(lists) ==
    IF lists = << >> THEN << >> ELSE Head(lists) \o Chain(Tail(lists))

\* list(zip(...)): one row per position that every column has.
Zip(columns) ==
    LET rows == Min({ Len(columns[c]) : c \in DOMAIN columns })
    IN [ k \in 1..rows |-> [ c \in DOMAIN columns |-> columns[c][k] ] ]

\* solutionTimes_df: the times in minutes, the solver and the subject.
SolutionTimesTable ==
    LET quotients ==
            [ k \in DOMAIN residualToolList |->
                Divide(groupSolutionTimes[residualToolList[k]], SecondsPerMinute) ]
    IN Zip(<< Chain([ k \in DOMAIN residualToolList |-> quotients[k].result ]),
              Chain([ k \in DOMAIN residualToolList |->
                        Repeat(solverLabels[k],
                               Len(groupSolutionTimes[residualToolList[k]])) ]),
              RepeatList(subList, 4) >>)

BuildSolutionTimesTable ==
    /\ gPc = "timeTable"
    /\ gTables' = [ times |-> SolutionTimesTable ]
    /\ groupSolutionTimes' =
          [ t \in ResidualTools |->
              Divide(groupSolutionTimes[t], SecondsPerMinute).operand ]
    /\ gPc' = "avgStats"
    /\ UNCHANGED << groupAvgResiduals, groupPeakResiduals, gStats >>
    /\ UNCHANGED notGroupVars

\* "residuals[tool][var].mean() +/- residuals[tool][var].std()" for every
\* tool and residual variable.
DisplayedResidualStats(residuals) ==
    [ t \in ResidualTools |-> [ v \in ResidualVarSet |->
        [ mean |-> Mean(residuals[t][v]), std |-> Std(residuals[t][v]) ] ] ]

\* "Average and display results for average residual variables".
DisplayAvgResiduals ==
    /\ gPc = "avgStats"
    /\ gStats' = [ gStats EXCEPT !.avg = DisplayedResidualStats(groupAvgResiduals) ]
    /\ gPc' = "peakStats"
    /\ UNCHANGED << groupSolutionTimes, groupAvgResiduals, groupPeakResiduals,
                    gTables >>
    /\ UNCHANGED notGroupVars

\* "Average and display results for peak residual variables".
DisplayPeakResiduals ==
    /\ gPc = "peakStats"
    /\ gStats' = [ gStats EXCEPT !.peak = DisplayedResidualStats(groupPeakResiduals) ]
    /\ gPc' = "tables"
    /\ UNCHANGED << groupSolutionTimes, groupAvgResiduals, groupPeakResiduals,
                    gTables >>
    /\ UNCHANGED notGroupVars

\* One residual dataframe: the values, the solver, the axis and the subject.
ResidualTable(residuals, axes) ==
    LET cells == { << k, a >> : k \in DOMAIN residualToolList, a \in DOMAIN axes }
        cellAt(n) == << ((n - 1) \div Len(axes)) + 1, ((n - 1) % Len(axes)) + 1 >>
        cellList == [ n \in 1..Cardinality(cells) |-> cellAt(n) ]
        valuesOf(c) == residuals[residualToolList[c[1]]][axes[c[2]]]
        firstOf(k) == residuals[residualToolList[k]][axes[1]]
    IN Zip(<< Chain([ n \in DOMAIN cellList |-> valuesOf(cellList[n]) ]),
              Chain([ k \in DOMAIN residualToolList |->
                        Repeat(solverLabels[k], Len(firstOf(k)) * 3) ]),
              Chain([ n \in DOMAIN cellList |->
                        Repeat(axes[cellList[n][2]], Len(valuesOf(cellList[n]))) ]),
              RepeatList(subList, 3 * 4) >>)

\* "Convert to dataframe for plotting": the four residual dataframes, which
\* are written to file as they are.
BuildResidualTables ==
    /\ gPc = "tables"
    /\ gTables' =
          [ times |-> gTables.times,
            avgForces |-> ResidualTable(groupAvgResiduals, forceAxes),
            avgMoments |-> ResidualTable(groupAvgResiduals, momentAxes),
            peakForces |-> ResidualTable(groupPeakResiduals, forceAxes),
            peakMoments |-> ResidualTable(groupPeakResiduals, momentAxes) ]
    /\ gPc' = "done"
    /\ UNCHANGED << groupSolutionTimes, groupAvgResiduals, groupPeakResiduals,
                    gStats >>
    /\ UNCHANGED notGroupVars

GroupNext ==
    \/ DisplaySolutionTimes
    \/ BuildSolutionTimesTable
    \/ DisplayAvgResiduals
    \/ DisplayPeakResiduals
    \/ BuildResidualTables

\* -- properties of the group level -----------------------------------------

\* The statistics of an accumulator, computed afresh from its present values.
TimeStatsNow ==
    [ t \in ResidualTools |->
        [ mean |-> Mean([ i \in 1..NumSubjects |->
                            groupSolutionTimes[t][i] \div SecondsPerMinute ]),
          std |-> Std([ i \in 1..NumSubjects |->
                            groupSolutionTimes[t][i] \div SecondsPerMinute ]) ] ]

ResidualStatsNow(residuals) ==
    [ t \in ResidualTools |-> [ v \in ResidualVarSet |->
        [ mean |-> Mean(residuals[t][v]), std |-> Std(residuals[t][v]) ] ] ]

\* C21: computing the group statistics is pure with respect to the
\* accumulated per-subject values: no step of the group level changes an
\* accumulated value, and at any later point the statistics computed again
\* from the accumulators are the means and standard deviations already
\* displayed.
C21_FinalizePure ==
    /\ [][ /\ groupSolutionTimes' = groupSolutionTimes
           /\ groupAvgResiduals' = groupAvgResiduals
           /\ groupPeakResiduals' = groupPeakResiduals ]_vars
    /\ [](/\ gStats.times # << >> => gStats.times = TimeStatsNow
          /\ gStats.avg # << >> => gStats.avg = ResidualStatsNow(groupAvgResiduals)
          /\ gStats.peak # << >> => gStats.peak = ResidualStatsNow(groupPeakResiduals))

\* All statistics have been displayed, of subjects whose values differ, and
\* the accumulators have been read again for the tables.
C21_Witness ==
    /\ gPc = "done"
    /\ gStats.times["moco"].std > 0
    /\ gStats.avg["rra"]["FX"].std > 0
    /\ gStats.peak["rra"]["FX"].mean > gStats.avg["rra"]["FX"].mean

\* The rows of a table with the given labels.
RowsWith(table, labels) ==
    { k \in DOMAIN table :
        \A c \in DOMAIN labels : table[k][c + 1] = labels[c] }

ResidualTableExact(table, residuals, axes) ==
    /\ Len(table) = Len(residualToolList) * Len(axes) * NumSubjects
    /\ \A k \in DOMAIN residualToolList, a \in DOMAIN axes, i \in 1..NumSubjects :
          LET rows == RowsWith(table, << solverLabels[k], axes[a], subList[i] >>)
          IN /\ Cardinality(rows) = 1
             /\ \A r \in rows :
                   table[r][1] = residuals[residualToolList[k]][axes[a]][i]

\* C27: every flat export table has exactly one row per combination of
\* method, axis and subject (method and subject for the solution times), and
\* the value of a row is that of the subject, method and axis the row names.
C27_OneRowPerCombination ==
    /\ gPc \in { "avgStats", "peakStats", "tables", "done" } =>
          /\ Len(gTables.times) = Len(residualToolList) * NumSubjects
          /\ \A k \in DOMAIN residualToolList, i \in 1..NumSubjects :
                LET rows == RowsWith(gTables.times, << solverLabels[k], subList[i] >>)
                IN /\ Cardinality(rows) = 1
                   /\ \A r \in rows :
                         gTables.times[r][1] =
                             groupSolutionTimes[residualToolList[k]][i]
                                 \div SecondsPerMinute
    /\ gPc = "done" =>
          /\ ResidualTableExact(gTables.avgForces, groupAvgResiduals, forceAxes)
          /\ ResidualTableExact(gTables.avgMoments, groupAvgResiduals, momentAxes)
          /\ ResidualTableExact(gTables.peakForces, groupPeakResiduals, forceAxes)
          /\ ResidualTableExact(gTables.peakMoments, groupPeakResiduals, momentAxes)

\* The tables have been built from subjects whose values differ.
C27_Witness ==
    /\ gPc = "done"
    /\ groupSolutionTimes["rra"][1] # groupSolutionTimes["rra"][NumSubjects]
    /\ groupAvgResiduals["moco"]["MY"][1] # groupAvgResiduals["moco"]["MY"][NumSubjects]
    /\ gTables.peakMoments[1][1] # gTables.avgMoments[1][1]

\* ------------------------------------------------------------------------
\* SpecRun: the subject loop of runSimulations.py and its process blocks
\* ------------------------------------------------------------------------

\* The process blocks in the order of the script, and the folder of each.
blockList == << "rra", "rra3", "moco", "addBiomechanics" >>

Blocks == { blockList[k] : k \in DOMAIN blockList }

\* extractData.py is started in data/HamnerDelp2013 and saves the gait
\* timings of a subject as <subject>\expData\gaitTimes.pkl.
extractHomeDir == << "data", "HamnerDelp2013" >>

SavedGaitTimesPath(subject) ==
    JoinPath(extractHomeDir, << subject, "expData", "gaitTimes.pkl" >>)

\* The gait timings file a script of code/HamnerDelpDataset loads, as the
\* relative path it opens.
LoadedGaitTimes(subject) ==
    << "..", "..", "data", "HamnerDelp2014", subject, "expData", "gaitTimes.pkl" >>

\* The folder of a process block, relative to homeDir.
BlockDir(subject, block) ==
    << "..", "..", "data", "HamnerDelp2013", subject, block, runLabel >>

\* What extractData.py leaves behind: the gait timings of every subject.
PreparedDataset == { SavedGaitTimesPath(subList[i]) : i \in 1..NumSubjects }

\* The same files kept in a second dataset folder named HamnerDelp2014.
SecondDataset ==
    { << "data", "HamnerDelp2014", subList[i], "expData", "gaitTimes.pkl" >> :
          i \in 1..NumSubjects }

NoRunError == [ at |-> "none", error |-> "none" ]

RunIdle ==
    /\ uPc = "idle"
    /\ runFlags = << >>
    /\ uSubject = 0
    /\ uCwd = homeDir
    /\ uPaths = {}
    /\ uOpened = << >>
    /\ uError = NoRunError

\* The script is started in its own folder with any setting of the run
\* flags, on the dataset extractData.py prepared, with or without a second
\* dataset folder.
RunInit ==
    /\ uPc = "subject"
    /\ runFlags \in [ Blocks -> BOOLEAN ]
    /\ uSubject = 1
    /\ uCwd = homeDir
    /\ uPaths \in { PreparedDataset, PreparedDataset \cup SecondDataset }
    /\ uOpened = << >>
    /\ uError = NoRunError

RunAbort(at, err) ==
    /\ uPc' = "aborted"
    /\ uError' = [ at |-> at, error |-> err ]

\* os.makedirs(..., exist_ok = True) of the folder of every enabled block.
MadeDirs(cwd, subject) ==
    { JoinPath(cwd, BlockDir(subject, b)) : b \in { x \in Blocks : runFlags[x] } }

\* "Set-up for individual subject": load the gait timings and create the
\* folders of the enabled blocks.
SetUpSubject ==
    /\ uPc = "subject"
    /\ IF JoinPath(uCwd, LoadedGaitTimes(subList[uSubject])) \in uPaths
       THEN /\ uOpened' = JoinPath(uCwd, LoadedGaitTimes(subList[uSubject]))
            /\ uPaths' = uPaths \cup MadeDirs(uCwd, subList[uSubject])
            /\ uPc' = blockList[1]
            /\ UNCHANGED uError
       ELSE /\ RunAbort("gaitTimes", "FileNotFoundError")
            /\ UNCHANGED << uPaths, uOpened >>
    /\ UNCHANGED << runFlags, uSubject, uCwd >>
    /\ UNCHANGED notRunVars

\* "if run<Block>:" and the change into the folder of the block; a block
\* that is switched off is passed over.
EnterBlock(block, inside, next) ==
    /\ IF runFlags[block]
       THEN LET target == JoinPath(uCwd, BlockDir(subList[uSubject], block))
            IN IF target \in uPaths
               THEN /\ uCwd' = target
                    /\ uPc' = inside
                    /\ UNCHANGED uError
               ELSE /\ RunAbort(block, "FileNotFoundError")
                    /\ UNCHANGED uCwd
       ELSE /\ uPc' = next
            /\ UNCHANGED << uCwd, uError >>
    /\ UNCHANGED << runFlags, uSubject, uPaths, uOpened >>
    /\ UNCHANGED notRunVars

\* The end of a block that navigates back to the home directory.
LeaveBlock(next) ==
    /\ uCwd' = homeDir
    /\ uPc' = next
    /\ UNCHANGED << runFlags, uSubject, uPaths, uOpened, uError >>
    /\ UNCHANGED notRunVars

\* The end of a block that leaves the working directory where it is.
EndBlock(next) ==
    /\ uPc' = next
    /\ UNCHANGED << runFlags, uSubject, uCwd, uPaths, uOpened, uError >>
    /\ UNCHANGED notRunVars

RunRRA ==
    /\ uPc = "rra"
    /\ EnterBlock("rra", "inRRA", "rra3")

EndRRA ==
    /\ uPc = "inRRA"
    /\ LeaveBlock("rra3")

RunRRA3 ==
    /\ uPc = "rra3"
    /\ EnterBlock("rra3", "inRRA3", "moco")

EndRRA3 ==
    /\ uPc = "inRRA3"
    /\ LeaveBlock("moco")

RunMoco ==
    /\ uPc = "moco"
    /\ EnterBlock("moco", "inMoco", "addBiomechanics")

\* The Moco block ends with the save of its run-time dictionary.
EndMoco ==
    /\ uPc = "inMoco"
    /\ EndBlock("addBiomechanics")

RunAddBiomech ==
    /\ uPc = "addBiomechanics"
    /\ EnterBlock("addBiomechanics", "inAddBiomech", "finalise")

EndAddBiomech ==
    /\ uPc = "inAddBiomech"
    /\ EndBlock("finalise")

\* "Finalise before next subject": back to the home directory.
FinaliseSubject ==
    /\ uPc = "finalise"
    /\ uCwd' = homeDir
    /\ IF uSubject < NumSubjects
       THEN /\ uSubject' = uSubject + 1
            /\ uPc' = "subject"
       ELSE /\ uSubject' = uSubject
            /\ uPc' = "done"
    /\ UNCHANGED << runFlags, uPaths, uOpened, uError >>
    /\ UNCHANGED notRunVars

RunNext ==
    \/ SetUpSubject
    \/ RunRRA
    \/ EndRRA
    \/ RunRRA3
    \/ EndRRA3
    \/ RunMoco
    \/ EndMoco
    \/ RunAddBiomech
    \/ EndAddBiomech
    \/ FinaliseSubject

\* -- properties of the subject loop ----------------------------------------

\* C22: for every setting of the run flags and every subject, the working
\* directory is homeDir at the start of the subject's iteration and when an
\* enabled block changes into the subject's folder.
C22_CwdIsHomeDir ==
    /\ uPc = "subject" => uCwd = homeDir
    /\ \A b \in Blocks : (uPc = b /\ runFlags[b]) => uCwd = homeDir

\* C30: the gait timings are loaded from the dataset folder extractData.py
\* saves them to, and which the collation script reads them from, so that on
\* a dataset prepared by extractData.py the set-up of a subject does not end
\* the script, whatever the run flags.
C30_GaitTimingsFromDataset ==
    /\ uOpened # << >> => uOpened \in PreparedDataset
    /\ uPaths \cap SecondDataset = {} => uError.at # "gaitTimes"

\* ------------------------------------------------------------------------
\* SpecMoco: solving and recording the cycles of the Moco block
\* ------------------------------------------------------------------------

NoSolution == [ sealed |-> FALSE, nIters |-> 0, runTime |-> 0 ]

\* {'mocoRunTime': [], 'nIters': [], 'solved': []}
EmptyMocoEntry == [ mocoRunTime |-> << >>, nIters |-> << >>, solved |-> << >> ]

\* What the solver can return: a solution that is sealed when the solver
\* failed, after some iterations and some time.
Solutions ==
    [ sealed : BOOLEAN, nIters : 1..MaxIters,
      runTime : { s * RunTimeUnit : s \in 1..MaxRunTime } ]

MocoIdle ==
    /\ mPc = "idle"
    /\ mCycle = 0
    /\ mSolution = NoSolution
    /\ mSolutions = << >>
    /\ mocoRunTimeData = << >>
    /\ mWritten = << >>
    /\ mError = "none"

\* The cycle loop is entered with the dictionary of the subject just made.
MocoInit ==
    /\ mPc = "solve"
    /\ mCycle = 1
    /\ mSolution = NoSolution
    /\ mSolutions = << >>
    /\ mocoRunTimeData = [ c \in DOMAIN cycleList |-> EmptyMocoEntry ]
    /\ mWritten = [ c \in DOMAIN cycleList |-> NoSolution ]
    /\ mError = "none"

\* study.solve() between the two timer readings, and the record of the run
\* time.
SolveCycle ==
    /\ mPc = "solve"
    /\ \E solution \in Solutions :
          /\ mSolution' = solution
          /\ mSolutions' = Append(mSolutions, solution)
          /\ mocoRunTimeData' =
                [ mocoRunTimeData EXCEPT ![mCycle].mocoRunTime = solution.runTime ]
    /\ mPc' = "store"
    /\ UNCHANGED << mCycle, mWritten, mError >>
    /\ UNCHANGED notMocoVars

\* solution.unseal() left out.
Unseal_not(solution) == solution

\* solution.unseal()
Unseal(solution) == [ solution EXCEPT !.sealed = FALSE ]

\* "Check need to unseal and store outcome".
StoreOutcome ==
    /\ mPc = "store"
    /\ IF mSolution.sealed
       THEN /\ mSolution' = Unseal(mSolution)
            /\ mocoRunTimeData' = [ mocoRunTimeData EXCEPT ![mCycle].solved = FALSE ]
       ELSE /\ mocoRunTimeData' = [ mocoRunTimeData EXCEPT ![mCycle].solved = TRUE ]
            /\ UNCHANGED mSolution
    /\ mPc' = "write"
    /\ UNCHANGED << mCycle, mSolutions, mWritten, mError >>
    /\ UNCHANGED notMocoVars

\* "Store number of iterations", "Write solution to file" and the step of
\* the cycle loop; a sealed solution cannot be read and raises.
WriteSolution ==
    /\ mPc = "write"
    /\ IF mSolution.sealed
       THEN /\ mPc' = "aborted"
            /\ mError' = "RuntimeError"
            /\ UNCHANGED << mocoRunTimeData, mWritten, mCycle >>
       ELSE /\ mocoRunTimeData' =
                  [ mocoRunTimeData EXCEPT ![mCycle].nIters = mSolution.nIters ]
            /\ mWritten' = [ mWritten EXCEPT ![mCycle] = mSolution ]
            /\ IF mCycle < Len(cycleList)
               THEN /\ mCycle' = mCycle + 1
                    /\ mPc' = "solve"
               ELSE /\ mCycle' = mCycle
                    /\ mPc' = "done"
            /\ UNCHANGED mError
    /\ UNCHANGED << mSolution, mSolutions >>
    /\ UNCHANGED notMocoVars

MocoNext ==
    \/ SolveCycle
    \/ StoreOutcome
    \/ WriteSolution

\* -- properties of the Moco block -------------------------------------------

\* The cycles whose pass of the loop has ended.
CyclesPassed ==
    IF mPc = "done" THEN DOMAIN cycleList
    ELSE IF mPc = "solve" THEN 1..(mCycle - 1)
    ELSE 1..(Len(mSolutions) - 1)

\* C28: the recorded 'solved' flag of a cycle is True exactly when the
\* solution the solver returned was not sealed; whether it was sealed or
\* not, the pass of the cycle ends without exception and with the run time,
\* the number of iterations and the solution file of that solution.
C28_SolvedFlag ==
    /\ mError = "none"
    /\ mPc \in { "write", "solve", "done" } =>
          \A c \in 1..Len(mSolutions) :
              mocoRunTimeData[c].solved = ~ mSolutions[c].sealed
    /\ \A c \in CyclesPassed :
          /\ mocoRunTimeData[c].mocoRunTime = mSolutions[c].runTime
          /\ mocoRunTimeData[c].nIters = mSolutions[c].nIters
          /\ mWritten[c] # NoSolution
          /\ mWritten[c].nIters = mSolutions[c].nIters
          /\ mWritten[c].runTime = mSolutions[c].runTime

\* All cycles are recorded, the first with a failed and the last with a
\* successful solution.
C28_Witness ==
    /\ mPc = "done"
    /\ mSolutions[1].sealed
    /\ mocoRunTimeData[1].solved = FALSE
    /\ ~ mSolutions[Len(cycleList)].sealed
    /\ mocoRunTimeData[Len(cycleList)].solved = TRUE

\* ------------------------------------------------------------------------
\* SpecScale: the time ranges of the scale tool in extractData.py
\* ------------------------------------------------------------------------

\* Times of the scale set-up file, in ticks of 0.1 s.
TimeRanges == (0..MaxTime) \X (0..MaxTime)

NoTimeRanges == << >>

ScaleIdle ==
    /\ sPc = "idle"
    /\ sTimeRange = NoTimeRanges
    /\ sRunWith = NoTimeRanges

\* The scale tool as loaded from the set-up file of the subject, with any
\* initial and final time for the model scaler and the marker placer.
ScaleInit ==
    /\ sPc = "modelScaler"
    /\ sTimeRange \in [ { "modelScaler", "markerPlacer" } -> TimeRanges ]
    /\ sRunWith = NoTimeRanges

\* "Check and fix if necessary": initialTime - 0.1 and finalTime replace a
\* range with initialTime >= finalTime.
CheckedTimeRange(range) ==
    LET initialTime == range[1]
        finalTime == range[2]
    IN IF initialTime >= finalTime
       THEN << initialTime - 1, finalTime >>
       ELSE range

CheckModelScaler ==
    /\ sPc = "modelScaler"
    /\ sTimeRange' =
          [ sTimeRange EXCEPT !.modelScaler = CheckedTimeRange(@) ]
    /\ sPc' = "markerPlacer"
    /\ UNCHANGED sRunWith
    /\ UNCHANGED notScaleVars

CheckMarkerPlacer ==
    /\ sPc = "markerPlacer"
    /\ sTimeRange' =
          [ sTimeRange EXCEPT !.markerPlacer = CheckedTimeRange(@) ]
    /\ sPc' = "run"
    /\ UNCHANGED sRunWith
    /\ UNCHANGED notScaleVars

\* scaleTool.run()
RunScaleTool ==
    /\ sPc = "run"
    /\ sRunWith' = sTimeRange
    /\ sPc' = "done"
    /\ UNCHANGED sTimeRange
    /\ UNCHANGED notScaleVars

ScaleNext ==
    \/ CheckModelScaler
    \/ CheckMarkerPlacer
    \/ RunScaleTool

\* -- properties of the scaling ------------------------------------------------

\* C29: after the check of the model scaler and of the marker placer, the
\* time ranges the scale tool is run with have initialTime < finalTime,
\* whatever times the set-up file held.
C29_TimeRangeOrdered ==
    sPc = "done" =>
        /\ sRunWith.modelScaler[1] < sRunWith.modelScaler[2]
        /\ sRunWith.markerPlacer[1] < sRunWith.markerPlacer[2]

\* ------------------------------------------------------------------------
\* SpecSum: component and summed residual curves of the collation script
\* ------------------------------------------------------------------------

rraResidualVars ==
    << "ground_pelvis_pelvis_offset_FX", "ground_pelvis_pelvis_offset_FY",
       "ground_pelvis_pelvis_offset_FZ", "ground_pelvis_pelvis_offset_MX",
       "ground_pelvis_pelvis_offset_MY", "ground_pelvis_pelvis_offset_MZ" >>

mocoResidualVars ==
    << "/forceset/pelvis_tx_actuator", "/forceset/pelvis_ty_actuator",
       "/forceset/pelvis_tz_actuator", "/forceset/pelvis_list_actuator",
       "/forceset/pelvis_rotation_actuator", "/forceset/pelvis_tilt_actuator" >>

addBiomechResidualVars ==
    << "pelvis_tx_force", "pelvis_ty_force", "pelvis_tz_force",
       "pelvis_list_moment", "pelvis_rotation_moment", "pelvis_tilt_moment" >>

\* The column labels of the result file of a tool; the RRA3 file is read
\* with the labels of RRA.
ColumnLabels(t) ==
    CASE t = "rra" -> rraResidualVars
      [] t = "rra3" -> rraResidualVars
      [] t = "moco" -> mocoResidualVars
      [] t = "addBiomech" -> addBiomechResidualVars

\* var.endswith('X') or var.endswith('Y') or var.endswith('Z')
IsComponent(var) == var \in { "FX", "FY", "FZ", "MX", "MY", "MZ" }

\* The times of a result file that spans one cycle.
CycleTimes == << 0, CycleLen >>

\* A column of a result file: its values at the start and the end of the
\* cycle, which differ in size and sign between tools and columns.
ResultColumn(t, k, level) ==
    << ValueUnit * (level * k - ResidualToolIndex(t)),
       ValueUnit * (ResidualToolIndex(t) - level) >>

ResultFiles(level) ==
    [ t \in ResidualTools |->
        [ label \in { ColumnLabels(t)[k] : k \in DOMAIN ColumnLabels(t) } |->
            ResultColumn(t,
                         CHOOSE k \in DOMAIN ColumnLabels(t) : ColumnLabels(t)[k] = label,
                         level) ] ]

\* {cyc: {var: np.zeros(101) for var in residualVars} for cyc in cycleList}
ZeroResiduals ==
    [ t \in ResidualTools |-> [ c \in DOMAIN cycleList |->
        [ v \in ResidualVarSet |-> ZeroCurve ] ] ]

SumIdle ==
    /\ qPc = "idle"
    /\ qCycle = 0
    /\ qVar = 0
    /\ qLevels = << >>
    /\ qData = << >>
    /\ qResiduals = << >>

\* The dictionaries of the subject have just been created.
SumInit ==
    /\ qPc = "load"
    /\ qCycle = 1
    /\ qVar = 0
    /\ qLevels = << >>
    /\ qData = << >>
    /\ qResiduals = ZeroResiduals

\* Top of the cycle loop: the result files of the four tools are loaded.
LoadResidualFiles ==
    /\ qPc = "load"
    /\ \E level \in (-MaxLevel)..MaxLevel :
          /\ qData' = ResultFiles(level)
          /\ qLevels' = Append(qLevels, level)
    /\ qVar' = 1
    /\ qPc' = "var"
    /\ UNCHANGED << qCycle, qResiduals >>
    /\ UNCHANGED notSummedVars

\* Step of the loop over residualVars and of the cycle loop.
NextVariable ==
    IF qVar < Len(residualVars)
    THEN /\ qVar' = qVar + 1
         /\ UNCHANGED << qCycle, qPc >>
    ELSE IF qCycle < Len(cycleList)
         THEN /\ qCycle' = qCycle + 1
              /\ qVar' = 0
              /\ qPc' = "load"
         ELSE /\ qPc' = "done"
              /\ UNCHANGED << qCycle, qVar >>

\* A component: its column is looked up by the position of the variable in
\* residualVars, interpolated to the grid and stored.
StoreComponent ==
    /\ qPc = "var"
    /\ IsComponent(residualVars[qVar])
    /\ qResiduals' =
          [ t \in ResidualTools |->
              [ qResiduals[t] EXCEPT
                  ![qCycle][residualVars[qVar]] =
                      Normalise(CycleTimes, qData[t][ColumnLabels(t)[qVar]]) ] ]
    /\ NextVariable
    /\ UNCHANGED << qLevels, qData >>
    /\ UNCHANGED notSummedVars

\* "Find variables related to the current parameter"
SumVarsOf(var) == IF var = "F" THEN forceAxes ELSE momentAxes

\* The sum of the curves as they are.
SumOfAbs_signed(curves) ==
    [ k \in 1..NumPoints |-> SumSeq([ n \in DOMAIN curves |-> curves[n][k] ]) ]

\* np.sum(np.vstack([np.abs(curve) for ...]), axis = 0)
SumOfAbs(curves) ==
    [ k \in 1..NumPoints |-> SumSeq([ n \in DOMAIN curves |-> Abs(curves[n][k]) ]) ]

\* A summed variable: the sum of the absolute component curves that the
\* dictionary of the tool holds for the cycle.
StoreSum ==
    /\ qPc = "var"
    /\ ~ IsComponent(residualVars[qVar])
    /\ LET axes == SumVarsOf(residualVars[qVar])
       IN qResiduals' =
             [ t \in ResidualTools |->
                 [ qResiduals[t] EXCEPT
                     ![qCycle][residualVars[qVar]] =
                         SumOfAbs([ n \in DOMAIN axes |->
                                      qResiduals[t][qCycle][axes[n]] ]) ] ]
    /\ NextVariable
    /\ UNCHANGED << qLevels, qData >>
    /\ UNCHANGED notSummedVars

SumNext ==
    \/ LoadResidualFiles
    \/ StoreComponent
    \/ StoreSum

\* -- properties of the residual curves -----------------------------------------

\* The summed variable v of cycle c has been stored.
SumStored(c, v) ==
    \/ qPc = "done"
    \/ c < qCycle
    \/ c = qCycle /\ qPc = "var" /\ ResidualVarIndex(v) < qVar

\* The component of tool t that the files of cycle c hold for axis v.
ComponentOfFile(t, c, v) ==
    Normalise(CycleTimes,
              ResultColumn(t, ResidualVarIndex(v), qLevels[c]))

\* C25: for every tool and cycle, the summed curve F (M) is at each point
\* |FX| + |FY| + |FZ| (|MX| + |MY| + |MZ|) of the component curves of that
\* tool and cycle, and these are the curves of the cycle's result files,
\* stored before the sum was taken.
C25_SummedResiduals ==
    \A t \in ResidualTools, c \in DOMAIN cycleList, v \in { "F", "M" } :
        SumStored(c, v) =>
            LET axes == IF v = "F" THEN << "FX", "FY", "FZ" >>
                        ELSE << "MX", "MY", "MZ" >>
            IN /\ \A n \in 1..3 :
                     qResiduals[t][c][axes[n]] = ComponentOfFile(t, c, axes[n])
               /\ \A k \in 1..NumPoints :
                     qResiduals[t][c][v][k] =
                         Abs(qResiduals[t][c][axes[1]][k])
                             + Abs(qResiduals[t][c][axes[2]][k])
                             + Abs(qResiduals[t][c][axes[3]][k])

\* Every cycle is stored, from files that differ between two cycles, and a
\* component of the last cycle changes sign and is negative at a point where
\* the sum is positive.
C25_Witness ==
    /\ qPc = "done"
    /\ qLevels[1] # qLevels[Len(cycleList)]
    /\ \E t \in ResidualTools : \E k, n \in 1..NumPoints :
          /\ qResiduals[t][Len(cycleList)]["MY"][k] < 0
          /\ qResiduals[t][Len(cycleList)]["M"][k] > 0
          /\ qResiduals[t][Len(cycleList)]["MY"][n] > 0

\* ------------------------------------------------------------------------
\* Specifications
\* ------------------------------------------------------------------------

InitWindow ==
    WindowInit
        /\ Rra3Idle
        /\ CollateIdle
        /\ BatchIdle
        /\ RunTimeIdle
        /\ ResidualsIdle
        /\ GroupIdle
        /\ RunIdle
        /\ MocoIdle
        /\ ScaleIdle
        /\ SumIdle

SpecWindow == InitWindow /\ [][WindowNext]_vars

InitRRA3 ==
    Rra3Init
        /\ WindowIdle
        /\ CollateIdle
        /\ BatchIdle
        /\ RunTimeIdle
        /\ ResidualsIdle
        /\ GroupIdle
        /\ RunIdle
        /\ MocoIdle
        /\ ScaleIdle
        /\ SumIdle

SpecRRA3 == InitRRA3 /\ [][Rra3Next]_vars

InitCollate ==
    CollateInit
        /\ WindowIdle
        /\ Rra3Idle
        /\ BatchIdle
        /\ RunTimeIdle
        /\ ResidualsIdle
        /\ GroupIdle
        /\ RunIdle
        /\ MocoIdle
        /\ ScaleIdle
        /\ SumIdle

SpecCollate == InitCollate /\ [][CollateNext]_vars

InitBatch ==
    BatchInit
        /\ WindowIdle
        /\ Rra3Idle
        /\ CollateIdle
        /\ RunTimeIdle
        /\ ResidualsIdle
        /\ GroupIdle
        /\ RunIdle
        /\ MocoIdle
        /\ ScaleIdle
        /\ SumIdle

SpecBatch == InitBatch /\ [][BatchNext]_vars

InitRunTime ==
    RunTimeInit
        /\ WindowIdle
        /\ Rra3Idle
        /\ CollateIdle
        /\ BatchIdle
        /\ ResidualsIdle
        /\ GroupIdle
        /\ RunIdle
        /\ MocoIdle
        /\ ScaleIdle
        /\ SumIdle

SpecRunTime == InitRunTime /\ [][RunTimeNext]_vars

InitResiduals ==
    ResidualsInit
        /\ WindowIdle
        /\ Rra3Idle
        /\ CollateIdle
        /\ BatchIdle
        /\ RunTimeIdle
        /\ GroupIdle
        /\ RunIdle
        /\ MocoIdle
        /\ ScaleIdle
        /\ SumIdle

SpecResiduals == InitResiduals /\ [][ResidualsNext]_vars

InitGroup ==
    GroupInit
        /\ WindowIdle
        /\ Rra3Idle
        /\ CollateIdle
        /\ BatchIdle
        /\ RunTimeIdle
        /\ ResidualsIdle
        /\ RunIdle
        /\ MocoIdle
        /\ ScaleIdle
        /\ SumIdle

SpecGroup == InitGroup /\ [][GroupNext]_vars

InitRun ==
    RunInit
        /\ WindowIdle
        /\ Rra3Idle
        /\ CollateIdle
        /\ BatchIdle
        /\ RunTimeIdle
        /\ ResidualsIdle
        /\ GroupIdle
        /\ MocoIdle
        /\ ScaleIdle
        /\ SumIdle

SpecRun == InitRun /\ [][RunNext]_vars

InitMoco ==
    MocoInit
        /\ WindowIdle
        /\ Rra3Idle
        /\ CollateIdle
        /\ BatchIdle
        /\ RunTimeIdle
        /\ ResidualsIdle
        /\ GroupIdle
        /\ RunIdle
        /\ ScaleIdle
        /\ SumIdle

SpecMoco == InitMoco /\ [][MocoNext]_vars

InitScale ==
    ScaleInit
        /\ WindowIdle
        /\ Rra3Idle
        /\ CollateIdle
        /\ BatchIdle
        /\ RunTimeIdle
        /\ ResidualsIdle
        /\ GroupIdle
        /\ RunIdle
        /\ MocoIdle
        /\ SumIdle

SpecScale == InitScale /\ [][ScaleNext]_vars

InitSum ==
    SumInit
        /\ WindowIdle
        /\ Rra3Idle
        /\ CollateIdle
        /\ BatchIdle
        /\ RunTimeIdle
        /\ ResidualsIdle
        /\ GroupIdle
        /\ RunIdle
        /\ MocoIdle
        /\ ScaleIdle

SpecSum == InitSum /\ [][SumNext]_vars

====
